---- MODULE Spec2Model ----
(***************************************************************************)
(* Workout-template chatbot: the template mutation engine                  *)
(* (workout_llm_helper.py) and the conversation state machine              *)
(* (workout_template_chatbot.py).                                          *)
(*                                                                         *)
(* Conventions                                                             *)
(*  - a Python str is a sequence of one-character strings; <<>> is the     *)
(*    empty string and also stands for a missing (None) string, because    *)
(*    the code only ever tests such values for truthiness;                 *)
(*  - an exercise id of 0 stands for None (catalog ids are positive);      *)
(*    sets/reps of 0 stand for None;                                       *)
(*  - a dict is a sequence of entries in insertion order ("days" is a      *)
(*    sequence of day records, each carrying its key);                     *)
(*  - scores are in ten-thousandths (0.5 is 5000).                         *)
(***************************************************************************)
EXTENDS Integers, Sequences, FiniteSets, TLC

(***************************************************************************)
(* Strings                                                                 *)
(***************************************************************************)
Uppers == <<"A","B","C","D","E","F","G","H","I","J","K","L","M",
            "N","O","P","Q","R","S","T","U","V","W","X","Y","Z">>
Lowers == <<"a","b","c","d","e","f","g","h","i","j","k","l","m",
            "n","o","p","q","r","s","t","u","v","w","x","y","z">>

IsUpper(c) == \E i \in 1..26 : Uppers[i] = c
IsLower(c) == \E i \in 1..26 : Lowers[i] = c
IsLetter(c) == IsUpper(c) \/ IsLower(c)

LowerChar(c) == IF IsUpper(c) THEN Lowers[CHOOSE i \in 1..26 : Uppers[i] = c] ELSE c
UpperChar(c) == IF IsLower(c) THEN Uppers[CHOOSE i \in 1..26 : Lowers[i] = c] ELSE c

\* str.lower()
Lower(s) == [i \in 1..Len(s) |-> LowerChar(s[i])]

\* str.title(): a letter that follows a non-letter is upper-cased, any other
\* letter is lower-cased
Title(s) == [i \in 1..Len(s) |->
               IF i = 1 \/ ~IsLetter(s[i-1]) THEN UpperChar(s[i]) ELSE LowerChar(s[i])]

\* a in b (substring test)
IsSubstr(a, b) ==
  \E k \in 0..(Len(b) - Len(a)) : \A i \in 1..Len(a) : b[k+i] = a[i]

\* the JSON null / non-string value that an untrusted document may carry
\* where a string is expected
NonStr == <<"<null>">>
IsStr(s) == s # NonStr

monday    == <<"m","o","n","d","a","y">>
tuesday   == <<"t","u","e","s","d","a","y">>
wednesday == <<"w","e","d","n","e","s","d","a","y">>
thursday  == <<"t","h","u","r","s","d","a","y">>
friday    == <<"f","r","i","d","a","y">>
saturday  == <<"s","a","t","u","r","d","a","y">>
sunday    == <<"s","u","n","d","a","y">>

DAYS6 == <<monday, tuesday, wednesday, thursday, friday, saturday>>

SeqToSet(s) == {s[i] : i \in 1..Len(s)}

(***************************************************************************)
(* Exercise catalog (external collaborator: exercise_catalog_db)           *)
(***************************************************************************)
legs      == <<"l","e","g","s">>
chest     == <<"c","h","e","s","t">>
back      == <<"b","a","c","k">>
core      == <<"c","o","r","e">>
full_body == <<"f","u","l","l"," ","b","o","d","y">>

\* the rows of the exercise table, in stored order; a snapshot holds the
\* first cat.n of them
NamedRows == <<
  [name |-> <<"S","q","u","a","t">>, muscle_group |-> legs],
  [name |-> <<"L","u","n","g","e">>, muscle_group |-> legs],
  [name |-> <<"B","e","n","c","h"," ","P","r","e","s","s">>, muscle_group |-> chest],
  [name |-> <<"P","u","s","h"," ","U","p">>, muscle_group |-> chest],
  [name |-> <<"R","o","w">>, muscle_group |-> back],
  [name |-> <<"P","l","a","n","k">>, muscle_group |-> core],
  [name |-> <<"L","e","g"," ","P","r","e","s","s">>, muscle_group |-> legs],
  [name |-> <<"D","i","p","s">>, muscle_group |-> chest],
  [name |-> <<"C","h","e","s","t"," ","P","r","e","s","s">>, muscle_group |-> chest],
  [name |-> <<"C","h","e","s","t"," ","F","l","y">>, muscle_group |-> chest],
  [name |-> <<"I","n","c","l","i","n","e"," ","P","r","e","s","s">>, muscle_group |-> chest],
  [name |-> <<"S","h","r","u","g">>, muscle_group |-> back]
>>

\* rows past the named ones are further full-body exercises "Ex<i>"
Digits == <<"0","1","2","3","4","5","6","7","8","9">>
CatalogRows == [i \in 1..99 |->
  IF i <= Len(NamedRows) THEN NamedRows[i]
  ELSE [name |-> <<"E","x", Digits[(i \div 10) + 1], Digits[(i % 10) + 1]>>,
        muscle_group |-> full_body]]

\* Bound: the largest catalog snapshot
MaxCatalog == 12

\* the catalog snapshots the collaborator can hand out:
\*   status "ok"     load_catalog returned {by_id: rows 1..n, ...}
\*   status "none"   load_catalog returned None (or an empty mapping)
\*   status "raises" load_catalog raised
\*   by_id           the rows of the snapshot, by id
Catalog(status, k) ==
  [status |-> status, n |-> k, by_id |-> [i \in 1..k |-> CatalogRows[i]]]

CatalogStates ==
  {Catalog("ok", k) : k \in {0, 2, 4, 8, MaxCatalog}}
  \cup {Catalog("none", 0), Catalog("raises", 0)}

\* keys of cat["by_id"]
ById(cat) == IF cat.status = "ok" THEN 1..cat.n ELSE {}

\* the ids of a set, as a list in stored (ascending) order
RECURSIVE SortedIds(_)
SortedIds_Least(S, m) == <<m>> \o SortedIds(S \ {m})

SortedIds(S) ==
  IF S = {} THEN <<>>
  ELSE SortedIds_Least(S, CHOOSE x \in S : \A y \in S : x <= y)

Take(s, n) == IF Len(s) <= n THEN s ELSE SubSeq(s, 1, n)

\* s[0] if s else None
FirstOr0(s) == IF s # <<>> THEN s[1] ELSE 0

\* a or b, for ids
NonZeroOr(a, b) == IF a # 0 THEN a ELSE b

\* id_for_name(name, cat): exact lookup in the name index (case-insensitive);
\* 0 when the name is unknown
id_for_name(nm, cat) ==
  FirstOr0(SortedIds({i \in ById(cat) : Lower(cat.by_id[i].name) = Lower(nm)}))

\* pick_from_muscles(muscle_list, cat, used_ids, n): up to n catalog ids whose
\* muscle group is one of muscle_list and that are not in used_ids
pick_from_muscles(muscles, cat, used_ids, n) ==
  Take(SortedIds({i \in ById(cat) :
                    /\ i \notin used_ids
                    /\ \E k \in 1..Len(muscles) :
                         IsStr(muscles[k]) /\ Lower(muscles[k]) = cat.by_id[i].muscle_group}),
       n)

(***************************************************************************)
(* Templates                                                               *)
(***************************************************************************)
Ex(id, name, sets, reps) == [id |-> id, name |-> name, sets |-> sets, reps |-> reps, note |-> 0]

\* the entry the code builds for catalog exercise eid
CatEx(eid, cat) == Ex(eid, cat.by_id[eid].name, 3, 10)

Day(key, title, mgs, exs) ==
  [key |-> key, title |-> title, muscle_groups |-> mgs, exercises |-> exs]

DayKeys(tpl) == [i \in 1..Len(tpl.days) |-> tpl.days[i].key]
KeySet(tpl) == {tpl.days[i].key : i \in 1..Len(tpl.days)}
HasKey(tpl, k) == k \in KeySet(tpl)
DayIndex(tpl, k) == CHOOSE i \in 1..Len(tpl.days) : tpl.days[i].key = k
\* the place of key k in the dict days, 0 when it is not a key
KeyIndex(days, k) ==
  IF \E i \in 1..Len(days) : days[i].key = k
  THEN CHOOSE i \in 1..Len(days) : days[i].key = k ELSE 0
ExIds(day) == {day.exercises[i].id : i \in 1..Len(day.exercises)}

\* days[key] = day: a dict assignment (a key already there keeps its place)
SetDay(days, day) ==
  IF \E i \in 1..Len(days) : days[i].key = day.key
  THEN [i \in 1..Len(days) |-> IF days[i].key = day.key THEN day ELSE days[i]]
  ELSE Append(days, day)

\* the dict that assigning the entries one after the other builds
RECURSIVE DictOf(_,_,_)
DictOf(entries, j, acc) ==
  IF j > Len(entries) THEN acc ELSE DictOf(entries, j + 1, SetDay(acc, entries[j]))

(***************************************************************************)
(* Catalog Enforcement Gate                                                *)
(***************************************************************************)
\* a gate that writes the default plan over the plan an entry carries
DynCanon_Keep_Defaults(ex, cat, acc, chosen_id) ==
  IF chosen_id # 0 /\ chosen_id \notin acc.day_used
  THEN [list |-> Append(acc.list, [CatEx(chosen_id, cat) EXCEPT !.note = ex.note]),
        day_used |-> acc.day_used \cup {chosen_id},
        global_used |-> acc.global_used \cup {chosen_id}]
  ELSE acc

DynCanon_Keep(ex, cat, acc, chosen_id) ==
  IF chosen_id # 0 /\ chosen_id \notin acc.day_used
  THEN [list |-> Append(acc.list,
                   [id |-> chosen_id, name |-> cat.by_id[chosen_id].name,
                    sets |-> IF ex.sets # 0 THEN ex.sets ELSE 3,
                    reps |-> IF ex.reps # 0 THEN ex.reps ELSE 10,
                    note |-> ex.note]),
        day_used |-> acc.day_used \cup {chosen_id},
        global_used |-> acc.global_used \cup {chosen_id}]
  ELSE acc

\* one existing entry of a day (lines 1162-1188): the id it carries if the
\* catalog has it, else the id of its name, else a pick from the day's
\* muscles; kept unless the day already has the id.  acc is
\* [list, day_used, global_used]
DynCanon(ex, muscles, cat, acc) ==
  DynCanon_Keep(ex, cat, acc, NonZeroOr(IF ex.id \in ById(cat) THEN ex.id
                 ELSE IF ex.name # <<>> THEN id_for_name(ex.name, cat)
                 ELSE 0,
                 FirstOr0(pick_from_muscles(muscles, cat,
                                            acc.global_used \cup acc.day_used, 1))))

\* the loop over a day's existing entries
RECURSIVE DynCanonLoop(_,_,_,_,_)
DynCanonLoop(exs, i, muscles, cat, acc) ==
  IF i > Len(exs) THEN acc
  ELSE DynCanonLoop(exs, i + 1, muscles, cat, DynCanon(exs[i], muscles, cat, acc))

\* retry ceiling of the top-up loop
max_attempts == 20

\* a top-up that makes one attempt per call: it adds one exercise to a short
\* day and leaves the rest to the next call
DynFillLoop_OneAttempt(muscles, cat, attempt_count, acc) ==
  IF ~(Len(acc.list) < 6 /\ attempt_count < max_attempts) THEN acc
  ELSE CHOOSE a \in
         {IF eid = 0 THEN acc
          ELSE [list |-> Append(acc.list, CatEx(eid, cat)),
                day_used |-> acc.day_used \cup {eid},
                global_used |-> acc.global_used \cup {eid}] :
            eid \in {IF pick_from_muscles(IF muscles # <<>> THEN muscles ELSE <<full_body>>,
                                          cat, acc.global_used \cup acc.day_used, 1) # <<>>
                     THEN pick_from_muscles(IF muscles # <<>> THEN muscles ELSE <<full_body>>,
                                            cat, acc.global_used \cup acc.day_used, 1)[1]
                     ELSE FirstOr0(SortedIds(ById(cat) \ acc.day_used))}} : TRUE

\* the top-up loop (lines 1190-1224)
RECURSIVE DynFillLoop(_,_,_,_)
DynFillLoop_Add(muscles, cat, attempt_count, acc, eid) ==
  IF eid = 0 THEN acc
  ELSE DynFillLoop(muscles, cat, attempt_count + 1,
         [list |-> Append(acc.list, CatEx(eid, cat)),
          day_used |-> acc.day_used \cup {eid},
          global_used |-> acc.global_used \cup {eid}])

DynFillLoop_Pick(cat, picked, available_ids) ==
  IF picked # <<>> /\ picked[1] \in ById(cat) THEN picked[1]
  ELSE FirstOr0(available_ids)

DynFillLoop(muscles, cat, attempt_count, acc) ==
  IF ~(Len(acc.list) < 6 /\ attempt_count < max_attempts) THEN acc
  ELSE
    DynFillLoop_Add(muscles, cat, attempt_count, acc,
                    DynFillLoop_Pick(cat,
                                     pick_from_muscles(IF muscles # <<>> THEN muscles ELSE <<full_body>>,
                               cat, acc.global_used \cup acc.day_used, 1),
             SortedIds(ById(cat) \ acc.day_used)))

\* the literal entries the gate appends when a day is left with fewer than
\* three exercises (lines 1227-1235); "30 seconds" is a string in the source
basic_exercises == <<
  Ex(9999, <<"P","u","s","h","-","u","p","s">>, 3, 10),
  Ex(9998, <<"S","q","u","a","t","s">>, 3, 12),
  Ex(9997, <<"P","l","a","n","k">>, 3, 30) >>

DynDay_Close(day, global_used, a2) ==
  [day |-> [day EXCEPT !.exercises =
              Take(IF Len(a2.list) < 3 THEN a2.list \o basic_exercises
                   ELSE a2.list, 8)],
   global_used |-> a2.global_used]

\* one day of the gate (lines 1156-1242)
DynDay(day, cat, global_used) ==
  DynDay_Close(day, global_used, DynFillLoop(day.muscle_groups, cat, 0,
          DynCanonLoop(day.exercises, 1, day.muscle_groups, cat,
            [list |-> <<>>, day_used |-> {}, global_used |-> global_used])))

\* the loop over template_names (lines 1151-1242)
RECURSIVE DynNamesLoop(_,_,_,_,_)
DynNamesLoop_Put(days, template_names, j, cat, i, r) ==
  DynNamesLoop([days EXCEPT ![i] = r.day], template_names, j + 1, cat,
               r.global_used)

DynNamesLoop_At(days, template_names, j, cat, global_used, i) ==
  IF i = 0 THEN DynNamesLoop(days, template_names, j + 1, cat, global_used)
  ELSE DynNamesLoop_Put(days, template_names, j, cat, i, DynDay(days[i], cat, global_used))

DynNamesLoop(days, template_names, j, cat, global_used) ==
  IF j > Len(template_names) THEN days
  ELSE
    DynNamesLoop_At(days, template_names, j, cat, global_used,
                    KeyIndex(days, Lower(template_names[j])))

\* _enforce_catalog_on_template_db_dynamic(tpl, db, template_names).
\* The template is rewritten in place, so the result is also the state of
\* the caller's object.  raised: load_catalog raised.
_enforce_catalog_on_template_db_dynamic(tpl, cat, template_names) ==
  IF cat.status = "raises" THEN [tpl |-> tpl, raised |-> TRUE]
  ELSE IF cat.status = "none" THEN [tpl |-> tpl, raised |-> FALSE]
  ELSE [tpl |-> [tpl EXCEPT !.days = DynNamesLoop(tpl.days, template_names, 1, cat, {})],
        raised |-> FALSE]

(***************************************************************************)
(* Fuzzy matcher.  Scores are in ten-thousandths: 1.0 is 10000.            *)
(***************************************************************************)
Min2(a, b) == IF a < b THEN a ELSE b
Max2(a, b) == IF a > b THEN a ELSE b

\* str.strip(): leading and trailing blanks removed
RECURSIVE Strip(_)
Strip(s) ==
  IF s = <<>> THEN s
  ELSE IF s[1] = " " THEN Strip(Tail(s))
  ELSE IF s[Len(s)] = " " THEN Strip(SubSeq(s, 1, Len(s) - 1))
  ELSE s

\* str.replace(" ", "")
NoSpace(s) == SelectSeq(s, LAMBDA c : c # " ")

\* str.split(): the maximal blank-free runs
RECURSIVE SplitFrom(_,_,_)
SplitFrom(s, i, cur) ==
  IF i > Len(s) THEN (IF cur = <<>> THEN <<>> ELSE <<cur>>)
  ELSE IF s[i] = " " THEN (IF cur = <<>> THEN <<>> ELSE <<cur>>) \o SplitFrom(s, i + 1, <<>>)
  ELSE SplitFrom(s, i + 1, Append(cur, s[i]))
Split(s) == SplitFrom(s, 1, <<>>)

StartsAt(s, k, a) == k + Len(a) - 1 <= Len(s) /\ \A i \in 1..Len(a) : s[k + i - 1] = a[i]

\* str.replace(a, b): every non-overlapping occurrence, left to right
RECURSIVE ReplaceFrom(_,_,_,_)
ReplaceFrom(s, k, a, b) ==
  IF k > Len(s) THEN <<>>
  ELSE IF StartsAt(s, k, a) THEN b \o ReplaceFrom(s, k + Len(a), a, b)
  ELSE <<s[k]>> \o ReplaceFrom(s, k + 1, a, b)
Replace(s, a, b) == IF a = <<>> THEN s ELSE ReplaceFrom(s, 1, a, b)

\* one row of the edit-distance table (lines 2333-2340)
RECURSIVE LevRow(_,_,_,_,_)
LevRow(previous_row, c1, s2, j, current_row) ==
  \* current_row holds j cells; measuring it makes the row a value before
  \* the next cell is computed from it
  IF j > Len(s2) \/ Len(current_row) # j THEN current_row
  ELSE LevRow(previous_row, c1, s2, j + 1,
              Append(current_row,
                     Min2(previous_row[j + 1] + 1,                       \* insertions
                          Min2(current_row[j] + 1,                       \* deletions
                               previous_row[j] + (IF c1 # s2[j] THEN 1 ELSE 0)))))

RECURSIVE LevRows(_,_,_,_)
LevRows(s1, s2, i, previous_row) ==
  IF i > Len(s1) \/ Len(previous_row) # Len(s2) + 1 THEN previous_row[Len(previous_row)]
  ELSE LevRows(s1, s2, i + 1, LevRow(previous_row, s1[i], s2, 1, <<i>>))

levenshtein_distance_Distance(s1, s2) ==
  IF Len(s2) = 0 THEN Len(s1)
  ELSE LevRows(s1, s2, 1, [j \in 1..(Len(s2) + 1) |-> j - 1])

levenshtein_distance(a, b) ==
  IF Len(a) < Len(b) THEN levenshtein_distance_Distance(b, a) ELSE levenshtein_distance_Distance(a,
                                                                                                 b)

\* the misspelling table of calculate_similarity, values already
\* space-stripped (correct.replace(" ", ""))
exercise_corrections == <<
  << <<"d","u","m","b","e","l","l">>, <<"d","u","m","b","b","e","l","l">> >>,
  << <<"d","u","m","b","e","l">>, <<"d","u","m","b","b","e","l","l">> >>,
  << <<"d","u","m","b","b","e","l">>, <<"d","u","m","b","b","e","l","l">> >>,
  << <<"b","e","n","c","h","p","r","e","s","s">>, <<"b","e","n","c","h","p","r","e","s","s">> >>,
  << <<"b","e","n","c","h","p","r","e","s">>, <<"b","e","n","c","h","p","r","e","s","s">> >>,
  << <<"p","u","s","h","u","p">>, <<"p","u","s","h","u","p">> >>,
  << <<"p","u","l","l","u","p">>, <<"p","u","l","l","u","p">> >>,
  << <<"s","i","t","u","p">>, <<"s","i","t","u","p">> >>,
  << <<"c","h","i","n","u","p">>, <<"c","h","i","n","u","p">> >>,
  << <<"b","i","c","e","p">>, <<"b","i","c","e","p","s">> >>,
  << <<"t","r","i","c","e","p">>, <<"t","r","i","c","e","p","s">> >>,
  << <<"s","h","o","u","l","d","e","r","p","r","e","s","s">>, <<"s","h","o","u","l","d","e","r","p","r","e","s","s">> >>,
  << <<"c","h","e","s","t","p","r","e","s","s">>, <<"c","h","e","s","t","p","r","e","s","s">> >>,
  << <<"l","e","g","p","r","e","s","s">>, <<"l","e","g","p","r","e","s","s">> >>,
  << <<"d","e","a","d","l","i","f","t">>, <<"d","e","a","d","l","i","f","t">> >>,
  << <<"s","q","u","a","t">>, <<"s","q","u","a","t">> >>,
  << <<"l","u","n","g","e">>, <<"l","u","n","g","e">> >>
>>

\* for wrong, correct in corrections.items(): s = s.replace(wrong, correct)
RECURSIVE ApplyCorrections(_,_,_)
ApplyCorrections(s, corrections, k) ==
  IF k > Len(corrections) \/ s = <<>> THEN s  \* nothing to replace in ""
  ELSE ApplyCorrections(Replace(s, corrections[k][1], corrections[k][2]), corrections, k + 1)

\* consonant classes of soundex; "" for a character outside every class
SoundexCode(c) ==
  IF c \in {"B","F","P","V"} THEN "1"
  ELSE IF c \in {"C","G","J","K","Q","S","X","Z"} THEN "2"
  ELSE IF c \in {"D","T"} THEN "3"
  ELSE IF c = "L" THEN "4"
  ELSE IF c \in {"M","N"} THEN "5"
  ELSE IF c = "R" THEN "6"
  ELSE ""

RECURSIVE SoundexLoop(_,_,_)
SoundexLoop_Step(s, i, code, k) ==
  IF k # "" /\ (Len(code) = 1 \/ code[Len(code)] # k)
  THEN SoundexLoop(s, i + 1, Append(code, k))
  ELSE SoundexLoop(s, i + 1, code)

SoundexLoop(s, i, code) ==
  IF i > Len(s) THEN code
  ELSE SoundexLoop_Step(s, i, code, SoundexCode(UpperChar(s[i])))

soundex(s) ==
  Take((IF s = <<>> THEN <<>> ELSE SoundexLoop(s, 2, <<UpperChar(s[1])>>))
       \o <<"0","0","0">>, 4)

\* token overlap (lines 2313-2321): the tokens of the first string that
\* equal, contain or are contained in some token of the second
TokenMatches(tokens1, tokens2) ==
  Cardinality({i \in 1..Len(tokens1) :
     \E j \in 1..Len(tokens2) :
        \/ tokens1[i] = tokens2[j]
        \/ IsSubstr(tokens1[i], tokens2[j])
        \/ IsSubstr(tokens2[j], tokens1[i])})

\* the sound codes and the edit distance
calculate_similarity_Sounds(a, b, edit_similarity) ==
  IF Len(a) > 3 /\ Len(b) > 3 /\ soundex(a) = soundex(b)
  THEN Max2(6000, edit_similarity)
  ELSE Max2(edit_similarity, 0)

\* the corrected spellings
calculate_similarity_Spelt(a, b, max_len, str1_corrected, str2_corrected) ==
  IF max_len = 0 THEN 0
  ELSE IF str1_corrected = str2_corrected THEN 9000
  ELSE IF IsSubstr(str1_corrected, str2_corrected)
          \/ IsSubstr(str2_corrected, str1_corrected)
    THEN 8000
  ELSE calculate_similarity_Sounds(a, b,
                                   10000 - ((10000 * levenshtein_distance(a, b)) \div max_len))

calculate_similarity_Corrected(a, b, corrections) ==
  calculate_similarity_Spelt(a, b, Max2(Len(a), Len(b)),
        ApplyCorrections(a, corrections, 1), ApplyCorrections(b, corrections, 1))

\* token_similarity > 0.6, then 0.7 + token_similarity * 0.2
calculate_similarity_Overlap(a, b, tokens1, tokens2, token_matches, max_tok) ==
  IF Len(tokens1) > 1 /\ Len(tokens2) > 1 /\ 10 * token_matches > 6 * max_tok
  THEN 7000 + ((2000 * token_matches) \div max_tok)
  ELSE calculate_similarity_Corrected(a, b, exercise_corrections)

calculate_similarity_Tokens(a, b, tokens1, tokens2) ==
  calculate_similarity_Overlap(a, b, tokens1, tokens2, TokenMatches(tokens1, tokens2),
          Max2(Len(tokens1), Len(tokens2)))

calculate_similarity_Spaceless(str1_clean, str2_clean, str1_no_space, str2_no_space) ==
  IF str1_clean = str2_clean THEN 10000
  ELSE IF str1_no_space = str2_no_space THEN 9500
  ELSE IF IsSubstr(str1_no_space, str2_no_space)
          \/ IsSubstr(str2_no_space, str1_no_space)
    THEN 8500
  ELSE calculate_similarity_Tokens(str1_no_space, str2_no_space, Split(str1_clean),
                                   Split(str2_clean))

calculate_similarity_Clean(str1_clean, str2_clean) ==
  calculate_similarity_Spaceless(str1_clean, str2_clean, NoSpace(str1_clean), NoSpace(str2_clean))

calculate_similarity(str1, str2) ==
  calculate_similarity_Clean(Strip(Lower(str1)), Strip(Lower(str2)))

(***************************************************************************)
(* Template generation (general path)                                      *)
(***************************************************************************)
\* _template_skeleton_dynamic(template_names)
_template_skeleton_dynamic(template_names) ==
  [name |-> <<"W">>,
   days |-> DictOf([j \in 1..Len(template_names) |->
                      Day(Lower(template_names[j]), Title(template_names[j]), <<>>, <<>>)],
                   1, <<>>)]

push_day == <<"p","u","s","h","_","d","a","y">>
pull_day == <<"p","u","l","l","_","d","a","y">>
Day5     == <<"D","a","y","5">>
day5     == <<"d","a","y","5">>

\* exercise entries as an untrusted document may carry them
ExUnknownId   == Ex(77, <<"L","u","n","g","e">>, 4, 8)         \* bad id, catalog name
ExNoIdName    == Ex(0, <<"s","q","u","a","t">>, 0, 0)          \* no id, catalog name
ExInvented    == Ex(0, <<"Z","u","m","b","a">>, 3, 10)         \* nothing resolves
ExForeignId   == Ex(55, <<"Z","u","m","b","a">>, 3, 10)        \* invented id and name

\* catalog exercises a to b with a plan of their own: 4 sets of 8
Planned(a, b) == [i \in 1..(b - a + 1) |-> Ex(a + i - 1, CatalogRows[a + i - 1].name, 4, 8)]

Range(a, b) == [i \in 1..(b - a + 1) |-> Ex(a + i - 1, CatalogRows[a + i - 1].name, 3, 10)]

(***************************************************************************)
(* The static-weekday gate                                                 *)
(***************************************************************************)
WeakCanon_Keep(ex, cat, acc, chosen_id) ==
  IF chosen_id # 0
  THEN [list |-> Append(acc.list,
                   [id |-> chosen_id, name |-> cat.by_id[chosen_id].name,
                    sets |-> ex.sets, reps |-> ex.reps, note |-> ex.note]),
        used |-> acc.used \cup {chosen_id}]
  ELSE acc

\* one entry of a day (lines 1079-1102); acc is [list, used]
WeakCanon(ex, muscles, cat, acc) ==
  WeakCanon_Keep(ex, cat, acc, NonZeroOr(IF ex.id \in ById(cat) THEN ex.id
                 ELSE IF ex.name # <<>> THEN id_for_name(ex.name, cat)
                 ELSE 0,
                 FirstOr0(pick_from_muscles(muscles, cat, acc.used, 1))))

\* the loop over a day's entries
RECURSIVE WeakCanonLoop(_,_,_,_,_)
WeakCanonLoop(exs, i, muscles, cat, acc) ==
  IF i > Len(exs) THEN acc
  ELSE WeakCanonLoop(exs, i + 1, muscles, cat, WeakCanon(exs[i], muscles, cat, acc))

\* the loop over DAYS6 (lines 1074-1104).  A weekday absent from the template
\* is created (days[d] = day) holding only an empty exercise list.  With no
\* catalog (cat is None) the first entry met raises, after the days before it
\* have been rewritten.
RECURSIVE WeakDaysLoop(_,_,_)
WeakDaysLoop_At(days, d, cat, i) ==
  IF i = 0
  THEN WeakDaysLoop(Append(days, Day(DAYS6[d], <<>>, <<>>, <<>>)), d + 1, cat)
  ELSE IF cat.status # "ok" /\ days[i].exercises # <<>>
  THEN [days |-> days, raised |-> TRUE]
  ELSE WeakDaysLoop(
         [days EXCEPT ![i].exercises =
            WeakCanonLoop(days[i].exercises, 1, days[i].muscle_groups, cat,
                          [list |-> <<>>, used |-> {}]).list],
         d + 1, cat)

WeakDaysLoop(days, d, cat) ==
  IF d > Len(DAYS6) THEN [days |-> days, raised |-> FALSE]
  ELSE
    WeakDaysLoop_At(days, d, cat, KeyIndex(days, DAYS6[d]))

_enforce_catalog_on_template_db_Rewritten(tpl, r) ==
  [tpl |-> [tpl EXCEPT !.days = r.days], raised |-> r.raised]

\* _enforce_catalog_on_template_db(tpl, db); rewrites tpl in place
_enforce_catalog_on_template_db(tpl, cat) ==
  IF cat.status = "raises" THEN [tpl |-> tpl, raised |-> TRUE]
  ELSE _enforce_catalog_on_template_db_Rewritten(tpl, WeakDaysLoop(tpl.days, 1, cat))

(***************************************************************************)
(* Results of the editing operations                                       *)
(*   st       "ok" the call returned, "raised" an exception left it,       *)
(*            "diverges" it never returns                                  *)
(*   tpl      the template returned (Nil when None is returned)            *)
(*   summary  the kind of summary string returned                          *)
(*   inp      the caller's template object after the call: the handlers    *)
(*            work on template.copy(), a shallow copy that shares "days"   *)
(***************************************************************************)
Nil == [nil |-> TRUE]

Ret(tpl, summary, inp) == [st |-> "ok", tpl |-> tpl, summary |-> summary, inp |-> inp]
Raised(inp) == [st |-> "raised", tpl |-> Nil, summary |-> "", inp |-> inp]
Diverges(inp) == [st |-> "diverges", tpl |-> Nil, summary |-> "", inp |-> inp]

\* any(keyword in instruction_lower for keyword in keywords)
HasAny(text, keywords) == \E k \in keywords : IsSubstr(k, text)

(***************************************************************************)
(* llm_edit_template                                                       *)
(***************************************************************************)
day_reduction_keywords ==
  {<<"r","e","d","u","c","e">>, <<"f","e","w","e","r">>, <<"l","e","s","s">>, <<"c","u","t"," ","d","o","w","n">>, <<"d","e","c","r","e","a","s","e">>, <<"m","i","n","i","m","i","z","e">>}
day_expansion_keywords ==
  {<<"a","d","d">>, <<"m","o","r","e">>, <<"i","n","c","r","e","a","s","e">>, <<"e","x","p","a","n","d">>, <<"e","x","t","r","a">>, <<"a","d","d","i","t","i","o","n","a","l">>}

\* any(keyword in instruction_lower ...) and 'day' in instruction_lower
DayWord(instr, keywords) ==
  HasAny(instr.text, keywords) /\ IsSubstr(<<"d","a","y">>, instr.text)

user_wants_day_reduction_Wanted(instr, n_original, kw_red, kw_exp) ==
  kw_red \/ (IsSubstr(<<"d","a","y">>, instr.text) /\ ~kw_red /\ ~kw_exp
             /\ instr.target_days >= 0 /\ instr.target_days < n_original)

\* lines 2125-2152 (and again 3426-3453): does the instruction ask for fewer
\* days; instr.target_days is the number the number_patterns capture, -1
\* when none matches
user_wants_day_reduction(instr, n_original) ==
  user_wants_day_reduction_Wanted(instr, n_original, DayWord(instr, day_reduction_keywords),
                                  DayWord(instr, day_expansion_keywords))

user_wants_day_expansion_Wanted(instr, n_original, kw_red, kw_exp) ==
  kw_exp \/ (IsSubstr(<<"d","a","y">>, instr.text) /\ ~kw_red /\ ~kw_exp
             /\ instr.target_days >= 0 /\ instr.target_days > n_original)

user_wants_day_expansion(instr, n_original) ==
  user_wants_day_expansion_Wanted(instr, n_original, DayWord(instr, day_reduction_keywords),
                                  DayWord(instr, day_expansion_keywords))

\* a test that lets every change of the day count pass, signalled or not
day_change_accepted_AnyCount(instr, original_days, updated_days) ==
  Len(updated_days) # Len(original_days)

\* the test of lines 2220-2221 (and 3456-3457): a changed day-key set is a
\* day change the user asked for
day_change_accepted(instr, original_days, updated_days) ==
  \/ user_wants_day_reduction(instr, Len(original_days)) /\ Len(updated_days) < Len(original_days)
  \/ user_wants_day_expansion(instr, Len(original_days)) /\ Len(updated_days) > Len(original_days)

\* lines 2259-2264 / 2274-2277: which gate runs
GateFor(tpl, keys, cat) ==
  IF Len(keys) <= 6 /\ \A i \in 1..Len(keys) : keys[i] \in SeqToSet(DAYS6)
  THEN _enforce_catalog_on_template_db(tpl, cat)
  ELSE _enforce_catalog_on_template_db_dynamic(tpl, cat, [i \in 1..Len(keys) |-> Title(keys[i])])

LlmEditExcept_Gated(g) == IF g.raised THEN Raised(g.tpl) ELSE Ret(g.tpl, "soft_failure", g.tpl)

\* the except branch (lines 2270-2278): the gate runs on template.copy(),
\* which shares the caller's days
LlmEditExcept(template, cat) ==
  LlmEditExcept_Gated(GateFor(template, DayKeys(template), cat))

\* lines 2259-2268: the gate on the updated template; with the
\* fallback, updated is the caller's template itself
llm_edit_template_Gated(template, aliased, g) ==
  IF g.raised THEN Raised(IF aliased THEN g.tpl ELSE template)
  ELSE Ret(g.tpl, IF aliased THEN "no_change" ELSE "llm",
           IF aliased THEN g.tpl ELSE template)

\* lines 2216-2258: the day keys of the answer against the original's
llm_edit_template_Checked(template, instr, cat, aliased, updated) ==
  IF KeySet(updated) # KeySet(template)
  THEN IF day_change_accepted(instr, DayKeys(template), DayKeys(updated))
       THEN Ret(updated, "llm", template)
       ELSE Ret(template, "structure_preserved", template)
  ELSE llm_edit_template_Gated(template, aliased, GateFor(updated, DayKeys(updated), cat))

\* the try block
llm_edit_template_Tried(template, instr, resp, cat) ==
  IF resp.kind = "raise" THEN Raised(template)
  ELSE IF resp.kind = "nodays" THEN Ret(template, "no_valid_structure", template)
  ELSE llm_edit_template_Checked(template, instr, cat, resp.kind = "malformed",
               IF resp.kind = "malformed" THEN template ELSE resp.tpl)

\* except Exception
llm_edit_template_Caught(cat, r) == IF r.st = "raised" THEN LlmEditExcept(r.inp, cat) ELSE r

\* llm_edit_template(oai, model, template, instruction, profile_hint, db).
\* resp is what the language-model call produced:
\*   kind "raise"      the call raised, timed out, or oai is None
\*   kind "malformed"  text that is no JSON: _safe_json hands back the
\*                     fallback {"template": template, "summary": "No change"}
\*   kind "nodays"     JSON whose template has no "days" object
\*   kind "tpl"        JSON carrying the template resp.tpl
llm_edit_template(template, instr, resp, cat) ==
  llm_edit_template_Caught(cat, llm_edit_template_Tried(template, instr, resp, cat))

(***************************************************************************)
(* Instructions.  An instruction is its lower-cased text together with     *)
(* what the code's regular expressions capture from it:                    *)
(*   bulk               extract_bulk_operation_info(instruction)           *)
(*   title              SmartWorkoutEditor.analyze_title_change            *)
(*   target_days        the number the number_patterns capture (-1: none)  *)
(*   add_matches        <<exercise, day>> per matching add pattern         *)
(*   add_alts           suggestions of the matching exercise_patterns      *)
(*   week_hits          weekday names found in the text                    *)
(*   day_hits           day keywords found in the text (removal)           *)
(*   candidate_phrases  phrases the removal handler tries                  *)
(*   day_muscle         <<target_day, muscle>> of the day-muscle patterns  *)
(*   replacement        <<target, replacement>> of the replacement patterns*)
(*   alt_names          names the alternative patterns capture             *)
(*   words              re.findall(r'[a-zA-Z]+', text)                     *)
(***************************************************************************)

FirstPair_First(hits) ==
  IF hits = {} THEN <<0, 0>>
  ELSE CHOOSE p \in hits : \A q \in hits : p[1] < q[1] \/ (p[1] = q[1] /\ p[2] <= q[2])

\* the first <<i, j>> in loop order (i outer, j inner) that satisfies P
FirstPair(n, m, P(_,_)) ==
  FirstPair_First({p \in (1..n) \X (1..m) : P(p[1], p[2])})

\* the day-key test the handlers share: day in key.lower() or key.lower() in day
DayMatches(day, key) == IsSubstr(day, Lower(key)) \/ IsSubstr(Lower(key), day)

\* the first template day matched by one of the day words, 0 when none
\* (lines 3006-3013, 2547-2555)
FindDay(template, day_words) ==
  FirstPair(Len(day_words), Len(template.days),
            LAMBDA h, k : DayMatches(day_words[h], template.days[k].key))[2]

(***************************************************************************)
(* handle_remove_exercise                                                  *)
(***************************************************************************)
\* collect_exercise_candidates (lines 3080-3096)
Candidate(d, exercises, phrases, p, e) ==
  [day |-> d, index |-> e, phrase |-> phrases[p],
   similarity |-> calculate_similarity(phrases[p], Lower(exercises[e].name))]

collect_exercise_candidates(d, exercises, phrases) ==
  SelectSeq([j \in 1..(Len(phrases) * Len(exercises)) |->
               Candidate(d, exercises, phrases, ((j - 1) \div Len(exercises)) + 1,
                         ((j - 1) % Len(exercises)) + 1)],
            LAMBDA c : c.similarity > 3000)

\* the candidates of the days d..last, day after day
RECURSIVE DayCandidates(_,_,_,_)
DayCandidates(days, d, last, phrases) ==
  IF d > last THEN <<>>
  ELSE collect_exercise_candidates(d, days[d].exercises, phrases)
         \o DayCandidates(days, d + 1, last, phrases)

candidate_score_Score(c, phrase_length) ==
  c.similarity + (IF phrase_length = 1 /\ c.similarity < 8000 THEN 0 - 2000
                  ELSE phrase_length * 1000)

\* candidate_score (lines 3115-3123)
candidate_score(c) ==
  candidate_score_Score(c, Len(Split(c.phrase)))

handle_remove_exercise_Removed(updated) == Ret(updated, "removed", updated)

handle_remove_exercise_Remove(template, c) ==
  IF c.similarity < 5000 THEN Ret(Nil, "none", template)
  ELSE handle_remove_exercise_Removed([template EXCEPT !.days[c.day].exercises =
                  SelectSeq(@, LAMBDA ex : ex # template.days[c.day].exercises[c.index])])

\* list.sort(reverse=True) is stable: the first of the best scores
handle_remove_exercise_Best(template, all_candidates, score) ==
  handle_remove_exercise_Remove(template, all_candidates[CHOOSE i \in 1..Len(score) :
                          /\ \A j \in 1..Len(score) : score[j] <= score[i]
                          /\ \A j \in 1..(i - 1) : score[j] < score[i]])

handle_remove_exercise_Ranked(template, instr, all_candidates) ==
  IF instr.candidate_phrases = <<>> \/ all_candidates = <<>>
  THEN Ret(Nil, "none", template)
  ELSE handle_remove_exercise_Best(template, all_candidates,
            [i \in 1..Len(all_candidates) |-> candidate_score(all_candidates[i])])

\* the named day alone when the instruction names one, else every day
handle_remove_exercise_Within(template, instr, target_day) ==
  handle_remove_exercise_Ranked(template, instr, DayCandidates(template.days,
                       IF target_day # 0 THEN target_day ELSE 1,
                       IF target_day # 0 THEN target_day ELSE Len(template.days),
                       instr.candidate_phrases))

\* handle_remove_exercise(template, instruction, instruction_lower); no
\* catalog is consulted.  Returns (None, None) when nothing matches.
handle_remove_exercise(template, instr) ==
  handle_remove_exercise_Within(template, instr, FindDay(template, instr.day_hits))

(***************************************************************************)
(* handle_specific_exercise_addition                                       *)
(***************************************************************************)
BestCatalogMatch_Best(score, good) ==
  IF good = {} THEN 0
  ELSE CHOOSE i \in good :
         \A j \in good : score[j] < score[i] \/ (score[j] = score[i] /\ i <= j)

BestCatalogMatch_Scored(threshold, ids, score) ==
  BestCatalogMatch_Best(score, {i \in ids : score[i] > threshold})

BestCatalogMatch_Among(name, cat, threshold, ids) ==
  BestCatalogMatch_Scored(threshold, ids,
                          [i \in ids |-> calculate_similarity(name, Lower(cat.by_id[i].name))])

\* the catalog id whose lower-cased name scores best against name, among
\* those scoring above threshold; 0 when none (lines 2459-2477, 2831-2847,
\* 2943-2955).  Ids in excluded are passed over.
BestCatalogMatch(name, cat, threshold, excluded) ==
  BestCatalogMatch_Among(name, cat, threshold, ById(cat) \ excluded)

all_days_words == {<<"a","l","l"," ","d","a","y","s">>, <<"e","v","e","r","y"," ","d","a","y","s">>, <<"a","l","l"," ","d","a","y">>, <<"e","v","e","r","y"," ","d","a","y">>}

\* lines 2488-2504: the exercise is appended to every day that lacks it and
\* holds fewer than 8
AddToAllDays(template, eid, cat) ==
  [template EXCEPT !.days =
     [d \in 1..Len(@) |->
        IF eid \notin ExIds(@[d]) /\ Len(@[d].exercises) < 8
        THEN [@[d] EXCEPT !.exercises = Append(@, CatEx(eid, cat))]
        ELSE @[d]]]

\* the loop over add_patterns (lines 2446-2518); s is
\* [id, named, day, all_days]: exercise_id, whether exercise_name is set,
\* the index of target_day_key, and whether the "all days" branch returned
RECURSIVE AddPatternLoop(_,_,_,_,_)
AddPatternLoop_potential_exercise(instr, i) == instr.add_matches[i][1]

AddPatternLoop_potential_day(instr, i) == instr.add_matches[i][2]

AddPatternLoop_Held(template, instr, cat, i, s1) ==
  IF s1.id # 0 /\ AddPatternLoop_potential_day(instr,
                                               i) \in all_days_words THEN [s1 EXCEPT !.all_days = TRUE]
  ELSE IF s1.id # 0 /\ s1.day # 0 THEN s1
  ELSE AddPatternLoop(template, instr, cat, i + 1, s1)

\* the exact name, else the best fuzzy match above 0.5; then the
\* first day the day word matches
AddPatternLoop_Matched(template, instr, cat, i, s, eid) ==
  AddPatternLoop_Held(template, instr, cat, i, [id |-> eid, named |-> s.named \/ eid # 0,
        day |-> IF eid # 0
                THEN NonZeroOr(FindDay(template, <<AddPatternLoop_potential_day(instr, i)>>), s.day)
                ELSE s.day,
        all_days |-> FALSE])

AddPatternLoop(template, instr, cat, i, s) ==
  IF i > Len(instr.add_matches) THEN s
  ELSE
    AddPatternLoop_Matched(template, instr, cat, i, s,
                           NonZeroOr(id_for_name(AddPatternLoop_potential_exercise(instr, i), cat),
                      BestCatalogMatch(AddPatternLoop_potential_exercise(instr, i), cat, 5000, {})))

\* the loop over exercise_patterns (lines 2535-2542): every lookup
\* overwrites exercise_id
RECURSIVE AddAltLoop(_,_,_,_)
AddAltLoop(instr, cat, i, eid) ==
  IF i > Len(instr.add_alts) THEN eid
  ELSE NonZeroOr(id_for_name(instr.add_alts[i], cat), AddAltLoop(instr, cat, i + 1, 0))

handle_specific_exercise_addition_Added(updated) == Ret(updated, "added", updated)

handle_specific_exercise_addition_Place(template, cat, day, alt_id, named) ==
  IF day = 0 THEN Ret(template, "day_not_identified", template)
  ELSE IF ~named \/ alt_id = 0 THEN Ret(template, "exercise_not_found", template)
  ELSE IF Len(template.days[day].exercises) >= 8 THEN Ret(template, "day_full", template)
  ELSE IF alt_id \in ExIds(template.days[day]) THEN Ret(template, "already_there", template)
  ELSE handle_specific_exercise_addition_Added([template EXCEPT !.days[day].exercises = Append(@,
                                                                                               CatEx(alt_id, cat))])

\* lines 2544-2555: a day is looked for among the weekday names only
\* when the name came from the exercise_patterns
handle_specific_exercise_addition_Located(template, instr, cat, s, alt_id, named) ==
  handle_specific_exercise_addition_Place(template, cat, IF ~s.named /\ named /\ s.day = 0
        THEN FindDay(template, instr.week_hits) ELSE s.day,
        alt_id, named)

handle_specific_exercise_addition_Alternative(template, instr, cat, s, alt_id) ==
  handle_specific_exercise_addition_Located(template, instr, cat, s, alt_id, s.named \/ alt_id # 0)

handle_specific_exercise_addition_Patterns(template, instr, cat, s) ==
  IF s.all_days THEN handle_specific_exercise_addition_Added(AddToAllDays(template, s.id, cat))
  ELSE handle_specific_exercise_addition_Alternative(template, instr, cat, s,
                                                     IF s.named THEN s.id ELSE AddAltLoop(instr,
                                                                                          cat, 1, s.id))

\* handle_specific_exercise_addition(template, instruction, db)
handle_specific_exercise_addition(template, instr, cat) ==
  IF cat.status = "raises" THEN Ret(template, "database_error", template)
  ELSE IF cat.status = "none" THEN Ret(template, "data_unavailable", template)
  ELSE handle_specific_exercise_addition_Patterns(template, instr, cat,
                                                  AddPatternLoop(template, instr, cat, 1,
                               [id |-> 0, named |-> FALSE, day |-> 0, all_days |-> FALSE]))

(***************************************************************************)
(* SmartWorkoutEditor.apply_title_change                                   *)
(***************************************************************************)
IsDigit(c) == \E i \in 1..10 : Digits[i] = c
\* str.isdigit()
IsDigits(s) == s # <<>> /\ \A i \in 1..Len(s) : IsDigit(s[i])
DigitValue(c) == (CHOOSE i \in 1..10 : Digits[i] = c) - 1
RECURSIVE ToInt(_)
ToInt(s) == IF s = <<>> THEN 0 ELSE 10 * ToInt(SubSeq(s, 1, Len(s) - 1)) + DigitValue(s[Len(s)])

apply_title_change_Renamed(template, new_title, matching) ==
  IF matching # 0
  THEN Ret([template EXCEPT !.days[matching].title = new_title], "renamed", template)
  ELSE Ret(template, "day_not_found", template)

apply_title_change_Numbered(template, k) == IF 1 <= k /\ k <= Len(template.days) THEN k ELSE 0

\* apply_title_change(template, target_day, new_title): the day keeps its
\* key and gets the new title; the caller's template is left as it was
apply_title_change(template, target_day, new_title) ==
  apply_title_change_Renamed(template, new_title,
                             IF IsDigits(target_day) THEN apply_title_change_Numbered(template,
                                                                                      ToInt(target_day))
          ELSE FindDay(template, <<Lower(target_day)>>))

(***************************************************************************)
(* enhanced_edit_template.enforce_exercise_limits                          *)
(***************************************************************************)
reduction_keywords ==
  {<<"r","e","d","u","c","e">>, <<"r","e","m","o","v","e">>, <<"d","e","l","e","t","e">>, <<"f","e","w","e","r">>, <<"l","e","s","s">>, <<"c","u","t">>, <<"d","r","o","p">>,
   <<"t","a","k","e"," ","o","u","t">>, <<"g","e","t"," ","r","i","d">>, <<"e","l","i","m","i","n","a","t","e">>, <<"d","e","c","r","e","a","s","e">>, <<"m","i","n","i","m","i","z","e">>}

\* retry ceiling of the refill loop (line 3210)
limit_max_attempts == 20

\* ids of a day's entries that are truthy (ex.get("id"))
TruthyIds(exercises) == {exercises[i].id : i \in 1..Len(exercises)} \ {0}

\* the refill loop of one day (lines 3212-3244)
RECURSIVE LimitFillLoop(_,_,_,_,_)
LimitFillLoop_Add(exercises, muscle_groups, cat, used_ids, attempts, eid) ==
  IF eid = 0 THEN exercises
  ELSE LimitFillLoop(Append(exercises, CatEx(eid, cat)), muscle_groups, cat,
                     used_ids \cup {eid}, attempts + 1)

LimitFillLoop_Pick(cat, picked, available_ids) ==
  IF picked # <<>> /\ picked[1] \in ById(cat) THEN picked[1]
  ELSE FirstOr0(available_ids)

LimitFillLoop(exercises, muscle_groups, cat, used_ids, attempts) ==
  IF ~(Len(exercises) < 6 /\ attempts < limit_max_attempts) THEN exercises
  ELSE
    LimitFillLoop_Add(exercises, muscle_groups, cat, used_ids, attempts,
                      LimitFillLoop_Pick(cat,
                                         pick_from_muscles(IF muscle_groups # <<>> THEN muscle_groups
                               ELSE <<full_body>>,
                               cat, used_ids, 1),
             SortedIds(ById(cat) \ used_ids)))

\* enforce_exercise_limits(template_dict): days are refilled and trimmed in
\* place.  raised: load_catalog raised.
enforce_exercise_limits(template_dict, instr, cat) ==
  IF cat.status = "raises" THEN [tpl |-> template_dict, raised |-> TRUE]
  ELSE IF cat.status = "none" \/ HasAny(instr.text, reduction_keywords)
  THEN [tpl |-> template_dict, raised |-> FALSE]
  ELSE [tpl |-> [template_dict EXCEPT !.days =
                   [d \in 1..Len(@) |->
                      [@[d] EXCEPT !.exercises =
                         Take(LimitFillLoop(@, template_dict.days[d].muscle_groups, cat,
                                            TruthyIds(@), 0), 8)]]],
        raised |-> FALSE]

Limited_Enforced(r, e) == IF e.raised THEN Raised(r.inp) ELSE Ret(e.tpl, r.summary, r.inp)

\* "result = enforce_exercise_limits(result); return result, summary" applied
\* to what a handler returned.  Nothing reads the caller's template object
\* after this point, so inp is not followed further.
Limited(r, instr, cat) ==
  IF r.st # "ok" THEN r
  ELSE Limited_Enforced(r, enforce_exercise_limits(r.tpl, instr, cat))

(***************************************************************************)
(* SmartWorkoutEditor.handle_bulk_muscle_change                            *)
(***************************************************************************)
muscle_mapping(muscle_group) ==
  CASE muscle_group = <<"l","e","g","s">> -> <<<<"l","o","w","e","r"," ","b","o","d","y">>, <<"l","e","g","s">>, <<"q","u","a","d","r","i","c","e","p","s">>, <<"h","a","m","s","t","r","i","n","g","s">>, <<"g","l","u","t","e","s">>, <<"c","a","l","v","e","s">>>>
    [] muscle_group = <<"u","p","p","e","r">> -> <<<<"u","p","p","e","r"," ","b","o","d","y">>, <<"c","h","e","s","t">>, <<"b","a","c","k">>, <<"s","h","o","u","l","d","e","r","s">>, <<"a","r","m","s">>>>
    [] muscle_group = <<"c","o","r","e">> -> <<<<"c","o","r","e">>, <<"a","b","s">>, <<"a","b","d","o","m","i","n","a","l">>>>
    [] muscle_group = <<"c","h","e","s","t">> -> <<<<"c","h","e","s","t">>, <<"p","e","c","t","o","r","a","l","s">>>>
    [] muscle_group = <<"b","a","c","k">> -> <<<<"b","a","c","k">>, <<"l","a","t","s">>, <<"r","h","o","m","b","o","i","d","s">>>>
    [] muscle_group = <<"b","i","c","e","p","s">> -> <<<<"b","i","c","e","p","s">>, <<"a","r","m","s">>>>
    [] muscle_group = <<"t","r","i","c","e","p","s">> -> <<<<"t","r","i","c","e","p","s">>, <<"a","r","m","s">>>>
    [] muscle_group = <<"s","h","o","u","l","d","e","r","s">> -> <<<<"s","h","o","u","l","d","e","r","s">>, <<"d","e","l","t","o","i","d","s">>>>
    [] muscle_group = <<"c","a","r","d","i","o">> -> <<<<"c","a","r","d","i","o">>, <<"a","e","r","o","b","i","c">>>>
    [] OTHER -> <<muscle_group>>

\* the loop over picked ids (lines 761-777, 786-798); acc is
\* [list, day_used, global_used]; restricted: the first pass, which avoids
\* the ids other days took
RECURSIVE BulkIdsLoop(_,_,_,_,_)
BulkIdsLoop(ids, i, cat, acc, restricted) ==
  IF i > Len(ids) \/ Len(acc.list) >= 6 THEN acc
  ELSE IF ids[i] \in acc.day_used \/ (restricted /\ ids[i] \in acc.global_used)
  THEN BulkIdsLoop(ids, i + 1, cat, acc, restricted)
  ELSE BulkIdsLoop(ids, i + 1, cat,
         [list |-> Append(acc.list, CatEx(ids[i], cat)),
          day_used |-> acc.day_used \cup {ids[i]},
          global_used |-> IF restricted THEN acc.global_used \cup {ids[i]} ELSE acc.global_used],
         restricted)

\* the loop over muscle_targets (lines 754-777, 782-798)
RECURSIVE BulkTargetsLoop(_,_,_,_,_)
BulkTargetsLoop(muscle_targets, t, cat, acc, restricted) ==
  IF t > Len(muscle_targets) \/ Len(acc.list) >= 6 THEN acc
  ELSE BulkTargetsLoop(muscle_targets, t + 1, cat,
         BulkIdsLoop(pick_from_muscles(<<muscle_targets[t]>>, cat,
                                       IF restricted THEN acc.global_used \cup acc.day_used
                                       ELSE acc.day_used,
                                       IF restricted THEN 3 ELSE 5),
                     1, cat, acc, restricted),
         restricted)

BulkReplaceDay_Close(day, muscle_targets, global_used, a2) ==
  [day |-> [day EXCEPT !.exercises = a2.list, !.muscle_groups = muscle_targets],
   global_used |-> a2.global_used]

BulkReplaceDay_Second(day, muscle_targets, cat, global_used, a1) ==
  BulkReplaceDay_Close(day, muscle_targets, global_used,
                       IF Len(a1.list) < 2 THEN BulkTargetsLoop(muscle_targets, 1, cat, a1, FALSE)
        ELSE a1)

\* operation 'replace' on one day (lines 746-802): a first pass that avoids
\* the ids other days took and, when it leaves fewer than two, a second pass
\* that does not
BulkReplaceDay(day, muscle_targets, cat, global_used) ==
  BulkReplaceDay_Second(day, muscle_targets, cat, global_used,
                        BulkTargetsLoop(muscle_targets, 1, cat,
           [list |-> <<>>, day_used |-> {}, global_used |-> global_used], TRUE))

\* the first muscle target for which pick_from_muscles finds an id (lines
\* 812-831); 0 when none does
RECURSIVE BulkAddPick(_,_,_,_)
BulkAddPick(muscle_targets, t, cat, used_ids) ==
  IF t > Len(muscle_targets) THEN 0
  ELSE NonZeroOr(FirstOr0(pick_from_muscles(<<muscle_targets[t]>>, cat, used_ids, 1)),
                 BulkAddPick(muscle_targets, t + 1, cat, used_ids))

BulkAddDay_Add(day, muscle_targets, cat, eid) ==
  IF Len(day.exercises) >= 8 \/ eid = 0 THEN day
  ELSE [day EXCEPT !.exercises = Append(@, CatEx(eid, cat)),
                   !.muscle_groups =
                     @ \o SelectSeq(muscle_targets,
                                    LAMBDA m : m \notin SeqToSet(day.muscle_groups))]

\* operation 'add' on one day (lines 804-831).  muscle_groups becomes
\* list(set(...)), whose order Python leaves open (it follows the hashes of
\* the strings); the model keeps the old entries in order and appends the new
\* ones, and reads the list as a set.
BulkAddDay(day, muscle_targets, cat) ==
  BulkAddDay_Add(day, muscle_targets, cat,
                 BulkAddPick(muscle_targets, 1, cat, TruthyIds(day.exercises)))

\* the loop over target_day_keys (lines 740-834)
RECURSIVE BulkDaysLoop(_,_,_,_,_,_,_)
BulkDaysLoop_Replaced(days, d, n_target, operation, muscle_targets, cat, r) ==
  BulkDaysLoop([days EXCEPT ![d] = r.day], d + 1, n_target, operation,
               muscle_targets, cat, r.global_used)

BulkDaysLoop(days, d, n_target, operation, muscle_targets, cat, global_used) ==
  IF d > n_target THEN days
  ELSE
    IF operation = "replace"
    THEN BulkDaysLoop_Replaced(days, d, n_target, operation, muscle_targets, cat,
                               BulkReplaceDay(days[d], muscle_targets, cat, global_used))
    ELSE BulkDaysLoop([days EXCEPT ![d] = BulkAddDay(days[d], muscle_targets, cat)],
                      d + 1, n_target, operation, muscle_targets, cat, global_used)

handle_bulk_muscle_change_Changed(updated) == Ret(updated, "bulk_changed", updated)

handle_bulk_muscle_change_Days(template, bulk, cat, n_target) ==
  IF n_target = 0 THEN Ret(template, "no_valid_days", template)
  ELSE handle_bulk_muscle_change_Changed([template EXCEPT !.days =
                  BulkDaysLoop(@, 1, n_target, bulk.operation,
                               muscle_mapping(bulk.target_muscle), cat, {})])

\* handle_bulk_muscle_change(template, muscle_group, operation, target_days,
\* specific_count, db); load_catalog is called outside any try
handle_bulk_muscle_change(template, bulk, cat) ==
  IF cat.status = "raises" THEN Raised(template)
  ELSE IF cat.status = "none" THEN Ret(template, "data_unavailable", template)
  ELSE handle_bulk_muscle_change_Days(template, bulk, cat, IF bulk.target_days = "all" THEN Len(template.days)
            ELSE IF bulk.target_days = "specific_count" /\ bulk.specific_count # 0
            THEN Min2(bulk.specific_count, Len(template.days))
            ELSE 0)

(***************************************************************************)
(* apply_manual_edit (called with a database session)                      *)
(***************************************************************************)
\* a function that ends without a return statement hands back None, which
\* the caller's "result, summary = ..." cannot unpack
ReturnsNone(inp) == [st |-> "ok", tpl |-> Nil, summary |-> "none", inp |-> inp]

\* muscle_exercise_names (lines 2706-2720)
muscle_exercise_names(muscle) ==
  IF muscle = <<"c","h","e","s","t">>
  THEN {<<"b","e","n","c","h"," ","p","r","e","s","s">>, <<"c","h","e","s","t"," ","p","r","e","s","s">>, <<"p","u","s","h"," ","u","p">>, <<"c","h","e","s","t"," ","f","l","y">>, <<"c","h","e","s","t"," ","f","l","y","e">>,
        <<"i","n","c","l","i","n","e"," ","p","r","e","s","s">>, <<"d","e","c","l","i","n","e"," ","p","r","e","s","s">>, <<"d","i","p","s">>, <<"p","e","c"," ","f","l","y">>}
  ELSE IF muscle = <<"b","a","c","k">>
  THEN {<<"p","u","l","l"," ","u","p">>, <<"l","a","t"," ","p","u","l","l","d","o","w","n">>, <<"r","o","w">>, <<"d","e","a","d","l","i","f","t">>, <<"s","h","r","u","g">>}
  ELSE IF muscle \in {<<"l","e","g">>, <<"l","e","g","s">>}
  THEN {<<"s","q","u","a","t">>, <<"l","u","n","g","e">>, <<"l","e","g"," ","p","r","e","s","s">>, <<"l","e","g"," ","e","x","t","e","n","s","i","o","n">>, <<"l","e","g"," ","c","u","r","l">>,
        <<"c","a","l","f"," ","r","a","i","s","e">>, <<"s","t","e","p"," ","u","p">>}
  ELSE {}

DayMuscleRequest_Changed(updated) == Ret(updated, "day_changed", updated)

DayMuscleRequest_Rows(template, cat, matching, rows, title) ==
  IF matching = 0 THEN Ret(template, "day_not_found", template)
  ELSE IF rows = {} THEN Ret(template, "no_muscle_exercises", template)
  ELSE IF Cardinality(rows) < 6 THEN Diverges(template)
  ELSE DayMuscleRequest_Changed([template EXCEPT
                  !.days[matching].exercises =
                    [j \in 1..6 |-> CatEx(SortedIds(rows)[j], cat)],
                  !.days[matching].muscle_groups = <<title>>,
                  !.days[matching].title = title \o <<" ","D","a","y">>])

\* the day-specific muscle request (lines 2694-2783).  The first loop over the
\* catalog takes up to six matching rows; when it finds between one and five,
\* "while len(new_exercises) < 6" scans the catalog again and again without
\* finding a row it has not used.
DayMuscleRequest(template, target_day, muscle, cat) ==
  DayMuscleRequest_Rows(template, cat, FindDay(template, <<target_day>>),
       {i \in ById(cat) : \E nm \in muscle_exercise_names(muscle) :
                            IsSubstr(nm, Lower(cat.by_id[i].name))},
       Title(muscle))

\* ' '.join(words)
RECURSIVE Join(_)
Join(ws) == IF ws = <<>> THEN <<>>
            ELSE IF Len(ws) = 1 THEN ws[1]
            ELSE ws[1] \o <<" ">> \o Join(Tail(ws))

PhraseInTemplate_Resembles(test_phrase, exercise_name) ==
  \/ IsSubstr(test_phrase, exercise_name)
  \/ calculate_similarity(test_phrase, exercise_name) > 6000

PhraseInTemplate_P(template, test_phrase, d, e) ==
  e <= Len(template.days[d].exercises)
  /\ PhraseInTemplate_Resembles(test_phrase, Lower(template.days[d].exercises[e].name))

PhraseInTemplate_Name(template, p) ==
  IF p[1] = 0 THEN <<>> ELSE template.days[p[1]].exercises[p[2]].name

\* the first exercise name of the template that test_phrase is part of or
\* resembles (lines 2861-2869); <<>> when none
PhraseInTemplate(template, test_phrase) ==
  PhraseInTemplate_Name(template,
                        FirstPair(Len(template.days), 8, LAMBDA d,
                                  e : PhraseInTemplate_P(template, test_phrase, d, e)))

\* a if a else b, for lists and strings
NonEmptyOr(a, b) == IF a # <<>> THEN a ELSE b

\* STEP 3 (lines 2856-2875): word combinations of length 3, 2, 1
RECURSIVE WordComboLoop(_,_,_,_)
WordComboLoop(template, words, word_combo_length, i) ==
  IF word_combo_length = 0 THEN <<>>
  ELSE IF i > Len(words) - word_combo_length + 1
  THEN WordComboLoop(template, words, word_combo_length - 1, 1)
  ELSE NonEmptyOr(PhraseInTemplate(template,
                                   Join(SubSeq(words, i, i + word_combo_length - 1))),
                  WordComboLoop(template, words, word_combo_length, i + 1))

\* Method 2 (lines 2824-2847): the first captured name that some catalog row
\* resembles; gives that row's name
RECURSIVE AltNameLoop(_,_,_)
AltNameLoop_Name(instr, cat, i, best) ==
  IF best # 0 THEN cat.by_id[best].name ELSE AltNameLoop(instr, cat, i + 1)

AltNameLoop(instr, cat, i) ==
  IF i > Len(instr.alt_names) THEN <<>>
  ELSE AltNameLoop_Name(instr, cat, i, BestCatalogMatch(instr.alt_names[i], cat, 4000, {}))

related_muscles(muscle) ==
  CASE muscle = <<"c","h","e","s","t">> -> <<<<"u","p","p","e","r"," ","b","o","d","y">>, <<"p","u","s","h">>>>
    [] muscle = <<"u","p","p","e","r"," ","b","o","d","y">> -> <<<<"c","h","e","s","t">>, <<"p","u","s","h">>>>
    [] muscle = <<"p","u","s","h">> -> <<<<"c","h","e","s","t">>, <<"u","p","p","e","r"," ","b","o","d","y">>>>
    [] muscle = <<"b","a","c","k">> -> <<<<"p","u","l","l">>, <<"u","p","p","e","r"," ","b","o","d","y">>>>
    [] muscle = <<"p","u","l","l">> -> <<<<"b","a","c","k">>, <<"u","p","p","e","r"," ","b","o","d","y">>>>
    [] muscle = <<"l","e","g","s">> -> <<<<"l","o","w","e","r"," ","b","o","d","y">>, <<"q","u","a","d","r","i","c","e","p","s">>, <<"h","a","m","s","t","r","i","n","g","s">>>>
    [] muscle = <<"l","o","w","e","r"," ","b","o","d","y">> -> <<<<"l","e","g","s">>, <<"q","u","a","d","r","i","c","e","p","s">>, <<"h","a","m","s","t","r","i","n","g","s">>>>
    [] muscle = <<"c","o","r","e">> -> <<<<"c","a","r","d","i","o">>, <<"f","u","l","l"," ","b","o","d","y">>>>
    [] muscle = <<"c","a","r","d","i","o">> -> <<<<"c","o","r","e">>, <<"f","u","l","l"," ","b","o","d","y">>>>
    [] muscle = <<"f","u","l","l"," ","b","o","d","y">> -> <<<<"c","o","r","e">>, <<"c","a","r","d","i","o">>>>
    [] OTHER -> <<>>

\* pick_from_muscles for each muscle of a list in turn, concatenated
RECURSIVE PickEach(_,_,_,_,_)
PickEach(muscles, m, cat, used_ids, n) ==
  IF m > Len(muscles) THEN <<>>
  ELSE pick_from_muscles(<<muscles[m]>>, cat, used_ids, n)
         \o PickEach(muscles, m + 1, cat, used_ids, n)

RECURSIVE RelatedEach(_,_,_,_)
RelatedEach(muscle_groups, m, cat, used_ids) ==
  IF m > Len(muscle_groups) THEN <<>>
  ELSE PickEach(related_muscles(Lower(muscle_groups[m])), 1, cat, used_ids, 3)
         \o RelatedEach(muscle_groups, m + 1, cat, used_ids)

\* alternative_ids (lines 2900-2932)
AlternativeIds(day, exercise, cat, used_ids) ==
  NonEmptyOr(PickEach([m \in 1..Len(day.muscle_groups) |-> Lower(day.muscle_groups[m])],
                      1, cat, used_ids, 5),
    NonEmptyOr(RelatedEach(day.muscle_groups, 1, cat, used_ids),
               Take(SortedIds(ById(cat) \ (used_ids \cup {exercise.id})), 5)))

ReplaceTarget_Same(target, exercise_name) ==
  target = exercise_name \/ calculate_similarity(target, exercise_name) > 8000

ReplaceTarget_P(template, target_exercise_name, d, e) ==
  e <= Len(template.days[d].exercises)
  /\ ReplaceTarget_Same(Lower(target_exercise_name),
          Lower(template.days[d].exercises[e].name))

ReplaceTarget_Replaced(updated) == Ret(updated, "replaced", updated)

ReplaceTarget_Swap(template, cat, p, exercise, replacement_id) ==
  IF replacement_id = 0 THEN Ret(template, "no_alternative", template)
  ELSE ReplaceTarget_Replaced([template EXCEPT !.days[p[1]].exercises[p[2]] =
                   [id |-> replacement_id, name |-> cat.by_id[replacement_id].name,
                    sets |-> exercise.sets, reps |-> exercise.reps, note |-> 0]])

\* the named replacement when the catalog has one like it, else the
\* first usable alternative
ReplaceTarget_Replacement(template, replacement_exercise_name, cat, p, day, exercise, used_ids) ==
  IF \E m \in 1..Len(day.muscle_groups) : ~IsStr(day.muscle_groups[m])
  THEN Raised(template)
  ELSE ReplaceTarget_Swap(template, cat, p, exercise,
         NonZeroOr(IF replacement_exercise_name # <<>>
                   THEN BestCatalogMatch(Lower(replacement_exercise_name), cat, 6000,
                                         used_ids \cup {exercise.id})
                   ELSE 0,
                   FirstOr0(SelectSeq(AlternativeIds(day, exercise, cat, used_ids),
                              LAMBDA a : a # exercise.id /\ a \in ById(cat)
                                         /\ a \notin used_ids))))

ReplaceTarget_Target(template, replacement_exercise_name, cat, p) ==
  IF p[1] = 0 THEN Ret(template, "exercise_not_found", template)
  ELSE ReplaceTarget_Replacement(template, replacement_exercise_name, cat, p, template.days[p[1]],
                                 template.days[p[1]].exercises[p[2]],
                   TruthyIds(template.days[p[1]].exercises))

\* STEP 4 (lines 2880-2985): the first entry that is the target is replaced
\* in place; muscle.lower() raises on a muscle group that is no string
ReplaceTarget(template, target_exercise_name, replacement_exercise_name, cat) ==
  ReplaceTarget_Target(template, replacement_exercise_name, cat,
                       FirstPair(Len(template.days), 8, LAMBDA d,
                                 e : ReplaceTarget_P(template, target_exercise_name, d, e)))

alternative_words == {<<"a","l","t","e","r","n","a","t","i","v","e">>, <<"a","l","t","e","r","n","a","t","e">>, <<"d","i","f","f","e","r","e","n","t"," ","e","x","e","r","c","i","s","e">>, <<"s","o","m","e","t","h","i","n","g"," ","e","l","s","e">>}
replacement_words == {<<"r","e","p","l","a","c","e">>, <<"c","h","a","n","g","e">>, <<"s","w","a","p">>, <<"s","u","b","s","t","i","t","u","t","e">>}

apply_manual_edit_Swap(template, cat, target_exercise_name, replacement_exercise_name) ==
  IF target_exercise_name = <<>> THEN Ret(template, "could_not_identify", template)
  ELSE ReplaceTarget(template, target_exercise_name, replacement_exercise_name, cat)

\* the target is the name a replacement pattern captured, else the
\* catalog name an alternative pattern leads to, else a word
\* combination found in the template
apply_manual_edit_Target(template, instr, cat, is_alternative_request, by_pattern) ==
  apply_manual_edit_Swap(template, cat, NonEmptyOr(IF by_pattern = <<>> /\ is_alternative_request
                  THEN AltNameLoop(instr, cat, 1) ELSE by_pattern,
                  WordComboLoop(template, instr.words, 3, 1)),
       IF by_pattern # <<>> THEN instr.replacement[2] ELSE <<>>)

apply_manual_edit_Request(template, instr, cat, is_alternative_request, is_replacement_request) ==
  IF ~(is_alternative_request \/ is_replacement_request) THEN ReturnsNone(template)
  ELSE apply_manual_edit_Target(template, instr, cat, is_alternative_request,
              IF is_replacement_request /\ instr.replacement # <<>>
              THEN instr.replacement[1] ELSE <<>>)

\* apply_manual_edit(template, instruction, db)
apply_manual_edit(template, instr, cat) ==
  IF cat.status = "raises" THEN Ret(template, "database_error", template)
  ELSE IF cat.status = "none" THEN Ret(template, "data_unavailable", template)
  ELSE IF instr.day_muscle # <<>>
  THEN DayMuscleRequest(template, instr.day_muscle[1], instr.day_muscle[2], cat)
  ELSE apply_manual_edit_Request(template, instr, cat, HasAny(instr.text, alternative_words),
               HasAny(instr.text, replacement_words))

(***************************************************************************)
(* enhanced_edit_template                                                  *)
(***************************************************************************)
leg_exercise_names ==
  {<<"s","q","u","a","t">>, <<"l","u","n","g","e">>, <<"l","e","g"," ","p","r","e","s","s">>, <<"l","e","g"," ","e","x","t","e","n","s","i","o","n">>, <<"l","e","g"," ","c","u","r","l">>,
   <<"c","a","l","f"," ","r","a","i","s","e">>, <<"b","u","l","g","a","r","i","a","n"," ","s","p","l","i","t"," ","s","q","u","a","t">>, <<"s","t","e","p"," ","u","p">>, <<"w","a","l","l"," ","s","i","t">>,
   <<"g","o","b","l","e","t"," ","s","q","u","a","t">>, <<"r","o","m","a","n","i","a","n"," ","d","e","a","d","l","i","f","t">>, <<"g","l","u","t","e"," ","b","r","i","d","g","e">>, <<"h","i","p"," ","t","h","r","u","s","t">>,
   <<"s","i","n","g","l","e"," ","l","e","g"," ","d","e","a","d","l","i","f","t">>, <<"p","i","s","t","o","l"," ","s","q","u","a","t">>, <<"j","u","m","p"," ","s","q","u","a","t">>}

\* any("leg" in mg.lower() for mg in muscle_groups) (line 3309): "yes", "no",
\* or "raises" when a muscle group that is no string is reached first
RECURSIVE AnyLeg(_,_)
AnyLeg(muscle_groups, m) ==
  IF m > Len(muscle_groups) THEN "no"
  ELSE IF ~IsStr(muscle_groups[m]) THEN "raises"
  ELSE IF IsSubstr(<<"l","e","g">>, Lower(muscle_groups[m])) THEN "yes"
  ELSE AnyLeg(muscle_groups, m + 1)

ChangeAllDay_Entries(cat, selected_ids) ==
  [i \in 1..Len(selected_ids) |-> CatEx(selected_ids[i], cat)]

ChangeAllDay_Select(day, cat, available_ids, new_leg_ids) ==
  ChangeAllDay_Entries(cat, IF AnyLeg(day.muscle_groups, 1) = "yes" /\ Len(new_leg_ids) >= 6
          THEN Take(new_leg_ids, 6)
          ELSE Take(available_ids, 6))

ChangeAllDay_Available(day, cat, available_ids) ==
  ChangeAllDay_Select(day, cat, available_ids,
         SelectSeq(available_ids, LAMBDA eid :
           \E leg_name \in leg_exercise_names :
             IsSubstr(leg_name, Lower(cat.by_id[eid].name))))

\* the new exercises of one day (lines 3294-3347)
ChangeAllDay(day, cat) ==
  ChangeAllDay_Available(day, cat, SortedIds(ById(cat) \ TruthyIds(day.exercises)))

\* the loop over the days (lines 3293-3354); each day is rewritten in the
\* caller's own document before the next one is looked at
RECURSIVE ChangeAllLoop(_,_,_)
ChangeAllLoop(days, d, cat) ==
  IF d > Len(days) THEN [days |-> days, raised |-> FALSE]
  ELSE IF AnyLeg(days[d].muscle_groups, 1) = "raises" THEN [days |-> days, raised |-> TRUE]
  ELSE ChangeAllLoop([days EXCEPT ![d].exercises = ChangeAllDay(days[d], cat)], d + 1, cat)

ChangeAll_Limits(raised, updated, e) ==
  IF raised \/ e.raised THEN Ret(updated, "could_not_change_all", updated)
  ELSE Ret(e.tpl, "replaced_all", e.tpl)

ChangeAll_Changed(instr, cat, raised, updated) ==
  ChangeAll_Limits(raised, updated, enforce_exercise_limits(updated, instr, cat))

ChangeAll_Looped(template, instr, cat, l) ==
  ChangeAll_Changed(instr, cat, l.raised, [template EXCEPT !.days = l.days])

\* the "change all exercises" block (lines 3275-3368)
ChangeAll(template, instr, cat) ==
  IF cat.status = "raises" THEN Ret(template, "could_not_change_all", template)
  ELSE IF cat.status = "none" THEN Ret(template, "data_unavailable", template)
  ELSE ChangeAll_Looped(template, instr, cat, ChangeAllLoop(template.days, 1, cat))

replacement_keywords ==
  {<<"a","l","t","e","r","n","a","t","e">>, <<"a","l","t","e","r","n","a","t","i","v","e">>, <<"r","e","p","l","a","c","e">>, <<"c","h","a","n","g","e">>, <<"s","w","a","p">>, <<"s","u","b","s","t","i","t","u","t","e">>, <<"s","u","b","s","t","i","t","u","t","e">>,
   <<"d","i","f","f","e","r","e","n","t"," ","e","x","e","r","c","i","s","e">>, <<"s","o","m","e","t","h","i","n","g"," ","e","l","s","e">>}

IsRemoval(instr) == IsSubstr(<<"r","e","m","o","v","e">>, instr.text) \/ IsSubstr(<<"d","e","l","e","t","e">>, instr.text)

ManualEdit_Unpacked(instr, cat, r) ==
  IF r.st # "ok" THEN r
  ELSE IF r.tpl = Nil THEN Raised(r.inp)
  ELSE IF IsRemoval(instr) THEN r
  ELSE Limited(r, instr, cat)

\* "result, summary = apply_manual_edit(template, instruction, db)" followed
\* by the limits unless the instruction speaks of removal (lines 3406-3415,
\* 3471-3480, 3484-3493)
ManualEdit(template, instr, cat) ==
  ManualEdit_Unpacked(instr, cat, apply_manual_edit(template, instr, cat))

LlmPath_Enforced(l, e) == IF e.raised THEN Raised(l.inp) ELSE Ret(e.tpl, l.summary, l.inp)

\* lines 3422-3480: the answer is validated once more; an answer that
\* fails leads to the manual edit
LlmPath_Validated(template, instr, cat, l) ==
  IF l.st = "raised" THEN l
  ELSE IF \/ KeySet(l.tpl) = KeySet(template)
          \/ day_change_accepted(instr, DayKeys(template), DayKeys(l.tpl))
  THEN LlmPath_Enforced(l, enforce_exercise_limits(l.tpl, instr, cat))
  ELSE ManualEdit(l.inp, instr, cat)

\* except Exception (lines 3482-3493)
LlmPath_Caught(instr, cat, r) == IF r.st = "raised" THEN ManualEdit(r.inp, instr, cat) ELSE r

\* the language-model path (lines 3419-3493); whatever raises inside the try
\* block leads to the manual edit of the except block
LlmPath(template, instr, resp, cat) ==
  LlmPath_Caught(instr, cat,
                 LlmPath_Validated(template, instr, cat,
                                   llm_edit_template(template, instr, resp, cat)))

\* the requests enhanced_edit_template settles by a rule before it reaches
\* the language model (lines 3258-3415)
BulkRequested(instr) ==
  instr.bulk.is_bulk_operation /\ instr.bulk.target_muscle # <<>> /\ instr.bulk.operation # "none"

ChangeAllRequested(instr) ==
  \/ IsSubstr(<<"c","h","a","n","g","e"," ","a","l","l">>, instr.text) /\ IsSubstr(<<"e","x","e","r","c","i","s","e">>, instr.text)
  \/ IsSubstr(<<"r","e","p","l","a","c","e"," ","a","l","l">>, instr.text) /\ IsSubstr(<<"e","x","e","r","c","i","s","e">>, instr.text)

RemovalHandled(template, instr) ==
  IsRemoval(instr) /\ handle_remove_exercise(template, instr).tpl # Nil

SettledByRule(template, instr) ==
  \/ BulkRequested(instr)
  \/ ChangeAllRequested(instr)
  \/ RemovalHandled(template, instr)
  \/ IsSubstr(<<"a","d","d">>, instr.text)
  \/ instr.title.wants_title_change
  \/ HasAny(instr.text, replacement_keywords)

\* lines 3370-3415: a removal that matched nothing falls through
enhanced_edit_template_Removal(template, instr, resp, cat, r) ==
  IF r.tpl # Nil THEN Limited(r, instr, cat)
  ELSE IF IsSubstr(<<"a","d","d">>, instr.text)
  THEN Limited(handle_specific_exercise_addition(template, instr, cat), instr, cat)
  ELSE IF instr.title.wants_title_change
  THEN Limited(apply_title_change(template, instr.title.target_day,
                                  instr.title.new_title),
               instr, cat)
  ELSE IF HasAny(instr.text, replacement_keywords)
  THEN ManualEdit(template, instr, cat)
  ELSE LlmPath(template, instr, resp, cat)

\* enhanced_edit_template(oai, model, template, instruction, profile_hint, db)
enhanced_edit_template(template, instr, resp, cat) ==
  IF BulkRequested(instr)
  THEN Limited(handle_bulk_muscle_change(template, instr.bulk, cat), instr, cat)
  ELSE IF ChangeAllRequested(instr)
  THEN ChangeAll(template, instr, cat)
  ELSE enhanced_edit_template_Removal(template, instr, resp, cat,
                                      IF IsRemoval(instr) THEN handle_remove_exercise(template,
                                                                                      instr)
               ELSE Ret(Nil, "none", template))

(***************************************************************************)
(* SmartWorkoutEditor.create_muscle_specific_template                      *)
(***************************************************************************)
\* what a generating call hands back: st "ok" or "raised"; tpl is Nil for
\* the empty dict {} and for a call that raised
Gen(tpl, why) == [st |-> "ok", tpl |-> tpl, why |-> why]
GenRaised == [st |-> "raised", tpl |-> Nil, why |-> ""]

\* the name lists of lines 903-938
cmst_exercise_names(muscle_group) ==
  IF muscle_group \in {<<"l","e","g","s">>, <<"l","e","g">>}
  THEN {<<"s","q","u","a","t">>, <<"l","u","n","g","e">>, <<"l","e","g"," ","p","r","e","s","s">>, <<"l","e","g"," ","e","x","t","e","n","s","i","o","n">>, <<"l","e","g"," ","c","u","r","l">>,
        <<"c","a","l","f"," ","r","a","i","s","e">>, <<"b","u","l","g","a","r","i","a","n"," ","s","p","l","i","t"," ","s","q","u","a","t">>, <<"s","t","e","p"," ","u","p">>, <<"w","a","l","l"," ","s","i","t">>,
        <<"g","o","b","l","e","t"," ","s","q","u","a","t">>, <<"r","o","m","a","n","i","a","n"," ","d","e","a","d","l","i","f","t">>, <<"g","l","u","t","e"," ","b","r","i","d","g","e">>, <<"h","i","p"," ","t","h","r","u","s","t">>}
  ELSE IF muscle_group = <<"c","h","e","s","t">>
  THEN {<<"b","e","n","c","h"," ","p","r","e","s","s">>, <<"c","h","e","s","t"," ","p","r","e","s","s">>, <<"p","u","s","h"," ","u","p">>, <<"c","h","e","s","t"," ","f","l","y">>, <<"c","h","e","s","t"," ","f","l","y","e">>,
        <<"i","n","c","l","i","n","e"," ","p","r","e","s","s">>, <<"d","e","c","l","i","n","e"," ","p","r","e","s","s">>, <<"d","i","p","s">>, <<"p","e","c"," ","f","l","y">>}
  ELSE IF muscle_group = <<"b","a","c","k">>
  THEN {<<"p","u","l","l"," ","u","p">>, <<"l","a","t"," ","p","u","l","l","d","o","w","n">>, <<"r","o","w">>, <<"d","e","a","d","l","i","f","t">>, <<"s","h","r","u","g">>,
        <<"c","h","i","n"," ","u","p">>, <<"c","a","b","l","e"," ","r","o","w">>, <<"t","-","b","a","r"," ","r","o","w">>}
  ELSE {}

\* all_muscle_exercises before the sort: the catalog rows whose name holds
\* one of the names, in stored order
all_muscle_exercises(muscle_group, cat) ==
  SelectSeq(SortedIds(ById(cat)),
            LAMBDA eid : \E nm \in cmst_exercise_names(muscle_group) :
                           IsSubstr(nm, Lower(cat.by_id[eid].name)))

\* list.sort(key=used_exercise_count.get(eid, 0)): a stable sort by the count
RECURSIVE SortByUsage(_,_,_)
SortByUsage(ids, used, c) ==
  IF \A k \in 1..Len(ids) : used[ids[k]] < c THEN <<>>
  ELSE SelectSeq(ids, LAMBDA e : used[e] = c) \o SortByUsage(ids, used, c + 1)

\* lines 946-975: the first six, or the available ones over and over until
\* there are six
SixOf(sorted) ==
  IF sorted = <<>> THEN <<>>
  ELSE [k \in 1..6 |-> sorted[((k - 1) % Len(sorted)) + 1]]

cmst_title(muscle_group) ==
  IF muscle_group = <<"l","e","g","s">> THEN <<"L","e","g"," ","D","a","y">>
  ELSE IF muscle_group = <<"c","h","e","s","t">> THEN <<"C","h","e","s","t"," ","D","a","y">>
  ELSE IF muscle_group = <<"b","a","c","k">> THEN <<"B","a","c","k"," ","D","a","y">>
  ELSE Title(muscle_group) \o <<" ","D","a","y">>

\* the loop over the days of one muscle group (lines 883-985)
RECURSIVE CmstLoop(_,_,_,_,_,_)
CmstLoop_Built(template_names, muscle_group, n, day_index, cat, acc, ids) ==
  CmstLoop(template_names, muscle_group, n, day_index + 1, cat,
           [days |-> SetDay(acc.days,
                       Day(Replace(Lower(template_names[day_index]), <<" ">>, <<"_">>),
                           cmst_title(muscle_group), <<Title(muscle_group)>>,
                           [k \in 1..Len(ids) |-> CatEx(ids[k], cat)])),
            used |-> [e \in DOMAIN acc.used |->
                        acc.used[e] + Cardinality({k \in 1..Len(ids) : ids[k] = e})]])

CmstLoop(template_names, muscle_group, n, day_index, cat, acc) ==
  IF day_index > n THEN acc.days
  ELSE
    CmstLoop_Built(template_names, muscle_group, n, day_index, cat, acc,
                   SixOf(SortByUsage(all_muscle_exercises(muscle_group, cat), acc.used, 0)))

\* create_muscle_specific_template(template_names, {muscle_group: day_count}, db)
\* with a database session.  day_count 0 stands for None, on which min()
\* raises; with no day to build, the summary line reads a variable that was
\* never bound and raises too.
create_muscle_specific_template(template_names, muscle_group, day_count, cat) ==
  IF cat.status = "raises" THEN GenRaised
  ELSE IF cat.status = "none" THEN Gen(Nil, "could_not_load")
  ELSE IF day_count = 0 THEN GenRaised
  ELSE IF Min2(day_count, Len(template_names)) <= 0 THEN GenRaised
  ELSE Gen([name |-> <<"C">>,
            days |-> CmstLoop(template_names, muscle_group,
                              Min2(day_count, Len(template_names)), 1, cat,
                              [days |-> <<>>, used |-> [e \in ById(cat) |-> 0]])],
           "created")

\* SmartWorkoutEditor.EXERCISE_GROUPS (lines 383-395)
EXERCISE_GROUPS == {
  <<<<"l","e","g","s">>, {<<"s","q","u","a","t","s">>, <<"l","e","g"," ","p","r","e","s","s">>, <<"l","u","n","g","e","s">>, <<"l","e","g"," ","e","x","t","e","n","s","i","o","n","s">>, <<"l","e","g"," ","c","u","r","l","s">>, <<"c","a","l","f"," ","r","a","i","s","e","s">>, <<"b","u","l","g","a","r","i","a","n"," ","s","p","l","i","t"," ","s","q","u","a","t","s">>, <<"s","t","e","p"," ","u","p","s">>, <<"w","a","l","l"," ","s","i","t","s">>, <<"g","o","b","l","e","t"," ","s","q","u","a","t","s">>, <<"l","e","g"," ","r","a","i","s","e","s">>}>>,
  <<<<"q","u","a","d","r","i","c","e","p","s">>, {<<"s","q","u","a","t","s">>, <<"l","e","g"," ","p","r","e","s","s">>, <<"l","u","n","g","e","s">>, <<"l","e","g"," ","e","x","t","e","n","s","i","o","n","s">>, <<"b","u","l","g","a","r","i","a","n"," ","s","p","l","i","t"," ","s","q","u","a","t","s">>, <<"s","t","e","p"," ","u","p","s">>, <<"g","o","b","l","e","t"," ","s","q","u","a","t","s">>}>>,
  <<<<"h","a","m","s","t","r","i","n","g","s">>, {<<"l","e","g"," ","c","u","r","l","s">>, <<"r","o","m","a","n","i","a","n"," ","d","e","a","d","l","i","f","t","s">>, <<"s","t","i","f","f"," ","l","e","g"," ","d","e","a","d","l","i","f","t","s">>, <<"g","o","o","d"," ","m","o","r","n","i","n","g","s">>, <<"s","i","n","g","l","e"," ","l","e","g"," ","d","e","a","d","l","i","f","t","s">>}>>,
  <<<<"c","a","l","v","e","s">>, {<<"c","a","l","f"," ","r","a","i","s","e","s">>, <<"s","t","a","n","d","i","n","g"," ","c","a","l","f"," ","r","a","i","s","e","s">>, <<"s","e","a","t","e","d"," ","c","a","l","f"," ","r","a","i","s","e","s">>, <<"d","o","n","k","e","y"," ","c","a","l","f"," ","r","a","i","s","e","s">>}>>,
  <<<<"g","l","u","t","e","s">>, {<<"s","q","u","a","t","s">>, <<"h","i","p"," ","t","h","r","u","s","t","s">>, <<"g","l","u","t","e"," ","b","r","i","d","g","e","s">>, <<"l","u","n","g","e","s">>, <<"b","u","l","g","a","r","i","a","n"," ","s","p","l","i","t"," ","s","q","u","a","t","s">>, <<"s","t","e","p"," ","u","p","s">>}>>,
  <<<<"c","h","e","s","t">>, {<<"b","e","n","c","h"," ","p","r","e","s","s">>, <<"p","u","s","h"," ","u","p","s">>, <<"c","h","e","s","t"," ","f","l","y","e","s">>, <<"i","n","c","l","i","n","e"," ","p","r","e","s","s">>, <<"d","e","c","l","i","n","e"," ","p","r","e","s","s">>, <<"d","i","p","s">>, <<"c","h","e","s","t"," ","d","i","p","s">>}>>,
  <<<<"b","a","c","k">>, {<<"p","u","l","l"," ","u","p","s">>, <<"l","a","t"," ","p","u","l","l","d","o","w","n","s">>, <<"r","o","w","s">>, <<"d","e","a","d","l","i","f","t","s">>, <<"s","h","r","u","g","s">>, <<"b","e","n","t"," ","o","v","e","r"," ","r","o","w","s">>, <<"c","a","b","l","e"," ","r","o","w","s">>}>>,
  <<<<"s","h","o","u","l","d","e","r","s">>, {<<"s","h","o","u","l","d","e","r"," ","p","r","e","s","s">>, <<"l","a","t","e","r","a","l"," ","r","a","i","s","e","s">>, <<"f","r","o","n","t"," ","r","a","i","s","e","s">>, <<"r","e","a","r"," ","d","e","l","t"," ","f","l","y","e","s">>, <<"o","v","e","r","h","e","a","d"," ","p","r","e","s","s">>}>>,
  <<<<"b","i","c","e","p","s">>, {<<"b","i","c","e","p"," ","c","u","r","l","s">>, <<"h","a","m","m","e","r"," ","c","u","r","l","s">>, <<"c","h","i","n"," ","u","p","s">>, <<"c","o","n","c","e","n","t","r","a","t","i","o","n"," ","c","u","r","l","s">>, <<"p","r","e","a","c","h","e","r"," ","c","u","r","l","s">>}>>,
  <<<<"t","r","i","c","e","p","s">>, {<<"t","r","i","c","e","p"," ","e","x","t","e","n","s","i","o","n","s">>, <<"d","i","p","s">>, <<"c","l","o","s","e"," ","g","r","i","p"," ","p","r","e","s","s">>, <<"o","v","e","r","h","e","a","d"," ","e","x","t","e","n","s","i","o","n","s">>, <<"t","r","i","c","e","p"," ","p","u","s","h","d","o","w","n","s">>}>>,
  <<<<"c","o","r","e">>, {<<"p","l","a","n","k","s">>, <<"c","r","u","n","c","h","e","s">>, <<"r","u","s","s","i","a","n"," ","t","w","i","s","t","s">>, <<"m","o","u","n","t","a","i","n"," ","c","l","i","m","b","e","r","s">>, <<"l","e","g"," ","r","a","i","s","e","s">>, <<"d","e","a","d"," ","b","u","g","s">>}>>}

validate_exercise_match_Valid(requested_muscle, actual_exercises, groups) ==
  IF \A g \in groups : g[1] # requested_muscle THEN TRUE
  ELSE \E k \in 1..Len(actual_exercises) :
         \E target_ex \in (CHOOSE g \in groups : g[1] = requested_muscle)[2] :
           IsSubstr(target_ex, Lower(actual_exercises[k].name))

\* validate_exercise_match(requested_muscle, actual_exercises)["valid"]
validate_exercise_match(requested_muscle, actual_exercises) ==
  validate_exercise_match_Valid(requested_muscle, actual_exercises, EXERCISE_GROUPS)

(***************************************************************************)
(* llm_generate_template_from_profile                                      *)
(***************************************************************************)
\* lines 2090-2096: keep the days whose key is a requested one, then give
\* every requested key that is missing an empty day
RECURSIVE SetDefaultDays(_,_,_)
SetDefaultDays_Default(days, template_names, j, day_key) ==
  SetDefaultDays(
    IF \E i \in 1..Len(days) : days[i].key = day_key THEN days
    ELSE Append(days, Day(day_key, Title(template_names[j]), <<>>, <<>>)),
    template_names, j + 1)

SetDefaultDays(days, template_names, j) ==
  IF j > Len(template_names) THEN days
  ELSE SetDefaultDays_Default(days, template_names, j, Lower(template_names[j]))

single_muscle_names == {<<"l","e","g","s">>, <<"l","e","g">>, <<"c","h","e","s","t">>, <<"b","a","c","k">>, <<"a","r","m","s">>, <<"s","h","o","u","l","d","e","r","s">>}

\* lines 2098-2110: the gate; a failure of the call or of the gate
\* leads to the skeleton
llm_generate_template_from_profile_Gated(resp, skeleton, g) ==
  IF resp.kind = "raise" \/ g.raised THEN Gen(skeleton, "fallback")
  ELSE Gen(g.tpl, "rationale")

\* lines 2090-2096: only the requested days are kept
llm_generate_template_from_profile_Kept(template_names, resp, cat, skeleton, tpl) ==
  llm_generate_template_from_profile_Gated(resp, skeleton,
        _enforce_catalog_on_template_db_dynamic(
          [tpl EXCEPT !.days =
             SetDefaultDays(
               SelectSeq(tpl.days, LAMBDA d :
                 \E j \in 1..Len(template_names) : d.key = Lower(template_names[j])),
               template_names, 1)],
          cat, template_names))

llm_generate_template_from_profile_General(template_names, resp, cat, skeleton) ==
  llm_generate_template_from_profile_Kept(template_names, resp, cat, skeleton, IF resp.kind = "tpl" THEN resp.tpl ELSE skeleton)

\* lines 2040-2052: a single name that is a muscle
llm_generate_template_from_profile_Single(template_names, resp, cat, name) ==
  IF name \in single_muscle_names
  THEN create_muscle_specific_template(<<monday>>,
         IF name \in {<<"l","e","g">>, <<"l","e","g","s">>} THEN <<"l","e","g","s">>
         ELSE name, 1, cat)
  ELSE llm_generate_template_from_profile_General(template_names, resp, cat,
                                                  _template_skeleton_dynamic(template_names))

\* llm_generate_template_from_profile(oai, model, profile, db) for a profile
\* that carries template_names; muscle_focus is <<>> when the profile has
\* none.  resp is what the language-model call produced ("raise",
\* "malformed" or "tpl", as for llm_edit_template).
llm_generate_template_from_profile(template_names, muscle_focus, resp, cat) ==
  IF muscle_focus # <<>>
  THEN create_muscle_specific_template(template_names, muscle_focus, Len(template_names), cat)
  ELSE llm_generate_template_from_profile_Single(template_names, resp, cat,
                                                 IF Len(template_names) = 1 THEN Lower(template_names[1]) ELSE <<>>)

\* render_markdown_from_template(tpl) raises on a muscle group that is no
\* string (', '.join(mgs), line 1028)
RenderRaises(tpl) ==
  tpl # Nil /\ \E i \in 1..Len(tpl.days) :
                 \E m \in 1..Len(tpl.days[i].muscle_groups) : ~IsStr(tpl.days[i].muscle_groups[m])

(***************************************************************************)
(* UltraFlexibleParser.extract_intent and                                  *)
(* FlexibleConversationState.determine_next_state.                         *)
(* An utterance u carries its text and what the parser's patterns give     *)
(* for it: the three confidences of calculate_intent_confidence (in        *)
(* ten-thousandths), extract_days_count (0: None), is_positive_response,   *)
(* is_negative_response, extract_template_names for a count of None, 1..7, *)
(* extract_comprehensive_workout_info, and the instruction record.         *)
(* A pending context is [state, profile, template], Nil when none is       *)
(* stored; template is Nil when the context has none (or an empty dict).   *)
(* A profile is [days_count, template_names, muscle_focus]: days_count -1  *)
(* when the key is absent and 0 when it is None; <<>> for an absent list   *)
(* or string.                                                              *)
(***************************************************************************)
STATES == [START |-> "start", FETCH_PROFILE |-> "fetch_profile", ASK_DAYS |-> "ask_days",
           ASK_NAMES |-> "ask_names", DRAFT_GENERATION |-> "draft_generation",
           EDIT_DECISION |-> "edit_decision", APPLY_EDIT |-> "apply_edit",
           CONFIRM_SAVE |-> "confirm_save", DONE |-> "done"]

extract_intent_Known(best) ==
  IF best.confidence < 1500 THEN [intent |-> "unknown", confidence |-> best.confidence]
  ELSE best

extract_intent_Best(create_conf, show_conf, edit_conf) ==
  extract_intent_Known(IF create_conf >= show_conf /\ create_conf >= edit_conf
        THEN [intent |-> "create", confidence |-> create_conf]
        ELSE IF show_conf >= edit_conf
        THEN [intent |-> "show", confidence |-> show_conf]
        ELSE [intent |-> "edit", confidence |-> edit_conf])

\* extract_intent(text, context): max() keeps the first of equal confidences
extract_intent(u, context) ==
  extract_intent_Best(u.create_conf, u.show_conf,
       u.edit_conf +
         (IF context # Nil /\ context.state \in {"EDIT_DECISION", "CONFIRM_SAVE"}
          THEN 2000 ELSE 0))

days_keywords == {<<"d","a","y">>, <<"d","a","y","s">>, <<"w","o","r","k","o","u","t">>, <<"w","e","e","k">>, <<"t","i","m","e">>}
nothing_keywords == {<<"n","o","t","h","i","n","g">>, <<"n","o">>, <<"s","k","i","p">>, <<"d","e","f","a","u","l","t">>, <<"d","e","f","a","u","l","t","s">>, <<"n","o","r","m","a","l">>,
                     <<"s","t","a","n","d","a","r","d">>, <<"n","o","n","e">>, <<"n","o","p","e">>, <<"n","a","h">>}
save_commands == {<<"s","a","v","e">>, <<"s","a","v","e"," ","i","t">>, <<"s","t","o","r","e">>, <<"s","t","o","r","e"," ","i","t">>, <<"k","e","e","p">>, <<"k","e","e","p"," ","i","t">>,
                  <<"p","e","r","f","e","c","t">>, <<"l","o","o","k","s"," ","g","o","o","d">>, <<"g","o","o","d"," ","t","o"," ","g","o">>}

determine_next_state_context_days(context) ==
  IF context = Nil THEN 0 ELSE context.profile.days_count

determine_next_state_is_days_input(u) == HasAny(Lower(u.text), days_keywords)

determine_next_state_is_nothing_response(u) == Lower(Strip(u.text)) \in nothing_keywords

\* a state machine that leaves ASK_DAYS whether or not a day count is known
determine_next_state_AlwaysAskNames(current_state, u, user_intent, intent_confidence, context) ==
  IF user_intent = "create" /\ intent_confidence > 3000 THEN STATES.FETCH_PROFILE
  ELSE IF user_intent = "show" /\ intent_confidence > 2500 THEN "SHOW_TEMPLATE"
  ELSE IF user_intent = "edit" /\ intent_confidence > 2000 THEN STATES.APPLY_EDIT
  ELSE IF current_state = STATES.START THEN STATES.FETCH_PROFILE
  ELSE IF current_state = STATES.ASK_DAYS THEN STATES.ASK_NAMES
  ELSE current_state

\* a state machine without the create override: a create intent is treated as
\* any other utterance
determine_next_state_NoCreateJump(current_state, u, user_intent, intent_confidence, context) ==
  IF user_intent = "show" /\ intent_confidence > 2500 THEN "SHOW_TEMPLATE"
  ELSE IF user_intent = "edit" /\ intent_confidence > 2000 THEN STATES.APPLY_EDIT
  ELSE IF current_state = STATES.START THEN STATES.FETCH_PROFILE
  ELSE IF current_state = STATES.FETCH_PROFILE THEN STATES.ASK_DAYS
  ELSE current_state

determine_next_state(current_state, u, user_intent, intent_confidence, context) ==
  IF user_intent = "create" /\ intent_confidence > 3000 THEN STATES.FETCH_PROFILE
  ELSE IF user_intent = "show" /\ intent_confidence > 2500 THEN "SHOW_TEMPLATE"
  ELSE IF user_intent = "edit" /\ intent_confidence > 2000 THEN STATES.APPLY_EDIT
  ELSE IF current_state = STATES.START THEN STATES.FETCH_PROFILE
  ELSE IF current_state = STATES.FETCH_PROFILE THEN STATES.ASK_DAYS
  ELSE IF current_state = STATES.ASK_DAYS
  THEN IF u.days_count > 0 \/ determine_next_state_context_days(context) > 0 THEN STATES.ASK_NAMES ELSE current_state
  ELSE IF current_state = STATES.ASK_NAMES
  THEN IF ~determine_next_state_is_days_input(u) /\ (Strip(u.text) = <<>> \/ Len(Strip(u.text)) > 2 \/ determine_next_state_is_nothing_response(u))
       THEN STATES.DRAFT_GENERATION ELSE current_state
  ELSE IF current_state = STATES.DRAFT_GENERATION THEN STATES.EDIT_DECISION
  ELSE IF current_state = STATES.EDIT_DECISION
  THEN IF HasAny(Lower(u.text), save_commands) THEN STATES.CONFIRM_SAVE
       ELSE IF u.positive \/ user_intent = "edit" THEN STATES.APPLY_EDIT
       ELSE IF u.negative THEN STATES.CONFIRM_SAVE
       ELSE STATES.APPLY_EDIT
  ELSE IF current_state = STATES.APPLY_EDIT THEN STATES.EDIT_DECISION
  ELSE IF current_state = STATES.CONFIRM_SAVE
  THEN IF u.positive THEN STATES.DONE
       ELSE IF u.negative THEN STATES.EDIT_DECISION
       ELSE STATES.APPLY_EDIT
  ELSE current_state

(***************************************************************************)
(* ultra_flexible_workout_stream: one turn of the conversation             *)
(***************************************************************************)
\* the profile _fetch_profile returns carries none of the keys followed here
FetchedProfile == [days_count |-> -1, template_names |-> <<>>, muscle_focus |-> <<>>]

Context(state, profile, template) == [state |-> state, profile |-> profile, template |-> template]

Str(n) == IF n < 10 THEN <<Digits[n + 1]>> ELSE <<Digits[(n \div 10) + 1], Digits[(n % 10) + 1]>>

day_names == <<<<"M","o","n","d","a","y">>, <<"T","u","e","s","d","a","y">>, <<"W","e","d","n","e","s","d","a","y">>, <<"T","h","u","r","s","d","a","y">>, <<"F","r","i","d","a","y">>, <<"S","a","t","u","r","d","a","y">>, <<"S","u","n","d","a","y">>>>

\* lines 1055-1059 and 1166-1170
ProperDayNames(days_count) ==
  IF days_count <= 7 THEN Take(day_names, days_count)
  ELSE [i \in 1..days_count |-> <<"D","a","y"," ">> \o Str(i)]

\* direct_muscle_map and muscle_keywords (lines 1122-1152) hold the same pairs
muscle_keywords(w) ==
  IF w \in {<<"l","e","g">>, <<"l","e","g","s">>, <<"l","o","w","e","r">>} THEN <<"l","e","g","s">>
  ELSE IF w = <<"c","h","e","s","t">> THEN <<"c","h","e","s","t">>
  ELSE IF w = <<"b","a","c","k">> THEN <<"b","a","c","k">>
  ELSE IF w \in {<<"a","r","m">>, <<"a","r","m","s">>, <<"u","p","p","e","r">>} THEN <<"u","p","p","e","r">>
  ELSE IF w \in {<<"s","h","o","u","l","d","e","r">>, <<"s","h","o","u","l","d","e","r","s">>} THEN <<"s","h","o","u","l","d","e","r","s">>
  ELSE IF w \in {<<"c","o","r","e">>, <<"a","b","s">>} THEN <<"c","o","r","e">>
  ELSE <<>>

\* lines 1118-1159: the muscle the request names, <<>> when none
RECURSIVE NameMuscle(_,_)
NameMuscle(template_names, j) ==
  IF j > Len(template_names) THEN <<>>
  ELSE NonEmptyOr(muscle_keywords(Strip(Lower(template_names[j]))),
                  NameMuscle(template_names, j + 1))

detected_muscle(u, template_names) ==
  NonEmptyOr(muscle_keywords(Strip(Lower(u.text))), NameMuscle(template_names, 1))

\* lines 1214-1228: the day keys follow the profile's template names
MuscleRename(days, template_names, muscle) ==
  DictOf([i \in 1..Len(days) |->
            IF i <= Len(template_names)
            THEN [days[i] EXCEPT !.key = Replace(Lower(template_names[i]), <<" ">>, <<"_">>),
                                 !.title = template_names[i] \o <<" ","-"," ">> \o Title(muscle) \o <<" ","D","a","y">>]
            ELSE days[i]], 1, <<>>)

GenerateMuscleSpecific_Renamed(template_names, muscle, tpl, why) ==
  IF tpl # Nil /\ template_names # <<>>
  THEN Gen([tpl EXCEPT !.days = MuscleRename(tpl.days, template_names, muscle)], why)
  ELSE Gen(tpl, why)

GenerateMuscleSpecific_Stored(template_names, muscle, g1, g2) ==
  IF g1.st = "raised" \/ g2.st = "raised" THEN GenRaised
  ELSE GenerateMuscleSpecific_Renamed(template_names, muscle, IF g1.tpl = Nil \/ g1.tpl.days = <<>>
               THEN [name |-> <<"C">>, days |-> <<>>]
               ELSE g2.tpl,
               g2.why)

\* lines 1190-1205: a first day that fails validate_exercise_match is
\* generated again, for Monday alone
GenerateMuscleSpecific_Validated(template_names, muscle, cat, g1) ==
  GenerateMuscleSpecific_Stored(template_names, muscle, g1,
         IF /\ g1.st = "ok" /\ g1.tpl # Nil /\ g1.tpl.days # <<>>
            /\ g1.tpl.days[1].exercises # <<>>
            /\ ~validate_exercise_match(muscle, g1.tpl.days[1].exercises)
         THEN create_muscle_specific_template(<<monday>>, muscle, 1, cat)
         ELSE g1)

\* _generate_muscle_specific up to the template it stores (lines 1177-1228);
\* the dash of the titles stands for the source's em dash
GenerateMuscleSpecific(template_names, muscle, days_count, cat) ==
  GenerateMuscleSpecific_Validated(template_names, muscle, cat,
                                   create_muscle_specific_template(template_names, muscle,
                                                                   days_count, cat))

\* the loop of lines 1713-1727
RECURSIVE GotNamesLoop(_,_,_,_)
GotNamesLoop_template_name(template_names, i) == template_names[i]

GotNamesLoop_original_title(old, i) == old[i].title

GotNamesLoop_title(old, template_names, i) ==
  IF GotNamesLoop_original_title(old,
                                 i) # <<>> /\ Lower(GotNamesLoop_original_title(old,
                                                                                i)) # Lower(GotNamesLoop_template_name(template_names, i))
  THEN GotNamesLoop_template_name(template_names, i) \o <<" ","-"," ">> \o GotNamesLoop_original_title(old, i)
  ELSE GotNamesLoop_template_name(template_names, i)

GotNamesLoop(old, template_names, i, new_days) ==
  IF i > Len(template_names) THEN new_days
  ELSE IF i > Len(old) THEN GotNamesLoop(old, template_names, i + 1, new_days)
  ELSE
    GotNamesLoop(old, template_names, i + 1,
      SetDay(new_days,
             [old[i] EXCEPT !.key = Replace(Lower(GotNamesLoop_template_name(template_names, i)), <<" ">>, <<"_">>),
                            !.title = GotNamesLoop_title(old, template_names, i)]))

GotNames_Renamed(template_names, g) ==
  IF g.st = "raised" THEN GenRaised
  ELSE IF g.tpl # Nil /\ template_names # <<>>
  THEN Gen([g.tpl EXCEPT !.days = GotNamesLoop(g.tpl.days, template_names, 1, <<>>)],
           g.why)
  ELSE g

\* _got_names up to the template it stores (lines 1706-1729)
GotNames(template_names, muscle_focus, resp, cat) ==
  GotNames_Renamed(template_names,
                   llm_generate_template_from_profile(template_names, muscle_focus, resp, cat))

\* What a turn leaves behind: the pending context and the stored template
\* after it, and for the record
\*   branch      the part of the handler that answered
\*   st          "ok", or "raised" when the request failed with an exception
\*   state, next_state, intent, confidence   what the handler computed
\*   given       the template handed to enhanced_edit_template (Nil: none)
\*   edit        what enhanced_edit_template did (Nil: it was not called)
\* the terminal line "event: done / data: [DONE]" of a stream
DoneEvent == "[DONE]"

\* the events the stream of a branch yields, each named by its status.  A
\* request that raises before its response is built, or whose generator never
\* returns, yields none.
BranchEvents(branch, st, after) ==
  IF st # "ok" THEN <<>>
  ELSE CASE branch = "no_change" -> <<DoneEvent>>
         [] branch = "show_saved" -> <<"fetched", "hint", DoneEvent>>
         [] branch = "no_template" -> <<"hint", DoneEvent>>
         [] branch = "fetch_profile" ->
              IF after.state = STATES.ASK_DAYS THEN <<"ask_days">> ELSE <<>>
         [] branch = "ask_names" -> <<"ask_names", DoneEvent>>
         [] branch \in {"muscle_draft", "draft"} -> <<"draft", "ask_edit_decision", DoneEvent>>
         [] branch \in {"muscle_generation_error", "generation_error", "edit_error",
                        "store_error"} -> <<"error", DoneEvent>>
         [] branch = "need_template" -> <<"hint", DoneEvent>>
         [] branch = "edit_applied" -> <<"edit_applied", "ask_edit_decision", DoneEvent>>
         [] branch = "confirm_save" -> <<"confirm_save", DoneEvent>>
         [] branch = "stored" -> <<"stored", "done", DoneEvent>>
         [] branch = "back_to_edit" -> <<"ask_edit_decision", DoneEvent>>
         [] branch = "fallback" -> <<"hint", DoneEvent>>

\* what a request leaves behind: the pending context, the saved template, and
\* what it decided and streamed
TurnResult(pend, stored, branch, st, d, given, edit) ==
  [ctx |-> pend, saved |-> stored,
   out |-> [branch |-> branch, st |-> st, state |-> d.state, next_state |-> d.next_state,
            intent |-> d.intent, confidence |-> d.confidence, given |-> given, edit |-> edit,
            events |-> BranchEvents(branch, st, pend)]]

Decide_Next_(pend, u, current_state, it) ==
  [state |-> current_state, intent |-> it.intent, confidence |-> it.confidence,
   next_state |-> determine_next_state(current_state, u, it.intent, it.confidence,
                                       pend)]

\* lines 979-989
Decide(pend, u) ==
  Decide_Next_(pend, u, IF pend = Nil THEN STATES.START ELSE pend.state, extract_intent(u, pend))

\* the FETCH_PROFILE handler (lines 1041-1087)
FetchProfile(pend, stored, u, d) ==
  IF u.info.is_muscle_specific_template /\ u.info.muscle_focus # <<>> /\ u.info.has_days_info
  THEN TurnResult(Context(STATES.DRAFT_GENERATION,
                          [days_count |-> u.info.days_count,
                           template_names |-> ProperDayNames(u.info.days_count),
                           muscle_focus |-> u.info.muscle_focus], Nil),
                  stored, "fetch_profile", "ok", d, Nil, Nil)
  ELSE TurnResult(Context(STATES.ASK_DAYS, FetchedProfile, Nil),
                  stored, "fetch_profile", "ok", d, Nil, Nil)

AskNames_prof(pend) == IF pend = Nil THEN FetchedProfile ELSE pend.profile

\* the ASK_NAMES handler (lines 1090-1109)
AskNames(pend, stored, u, d) ==
  TurnResult(Context(STATES.ASK_NAMES, [AskNames_prof(pend) EXCEPT !.days_count = u.days_count],
                     Nil),
             stored, "ask_names", "ok", d, Nil, Nil)

\* lines 1177-1270: the muscle-specific draft
DraftGeneration_MuscleDraft(pend, stored, d, prof_m, gm) ==
  IF gm.st = "raised" \/ RenderRaises(gm.tpl)
  THEN TurnResult(pend, stored, "muscle_generation_error", "ok", d, Nil, Nil)
  ELSE TurnResult(Context(STATES.EDIT_DECISION, prof_m, gm.tpl), stored,
                  "muscle_draft", "ok", d, Nil, Nil)

\* lines 1693-1766: the general draft
DraftGeneration_GeneralDraft(pend, stored, d, prof_n, gn) ==
  IF gn.st = "raised" \/ RenderRaises(gn.tpl)
  THEN TurnResult(pend, stored, "generation_error", "ok", d, Nil, Nil)
  ELSE TurnResult(Context(STATES.EDIT_DECISION, prof_n, gn.tpl), stored,
                  "draft", "ok", d, Nil, Nil)

DraftGeneration_Drafted(pend, stored, resp, cat, d, prof, days_count, template_names, muscle) ==
  IF muscle # <<>> /\ days_count = 0
  THEN TurnResult(pend, stored, "draft_generation", "raised", d, Nil, Nil)
  ELSE IF muscle # <<>>
  THEN DraftGeneration_MuscleDraft(pend, stored, d, [prof EXCEPT !.muscle_focus = muscle,
                                !.template_names = ProperDayNames(days_count)],
                   GenerateMuscleSpecific(ProperDayNames(days_count), muscle,
                                          days_count, cat))
  ELSE IF d.state # STATES.ASK_NAMES
  THEN TurnResult(pend, stored, "fallback", "ok", d, Nil, Nil)
  ELSE DraftGeneration_GeneralDraft(pend, stored, d,
                                    [prof EXCEPT !.template_names = template_names],
                    GotNames(template_names, prof.muscle_focus, resp, cat))

\* extract_template_names raises on a days_count of None
DraftGeneration_Extracted(pend, stored, u, resp, cat, d, prof, days_count, extracted) ==
  IF extracted.raised
  THEN TurnResult(pend, stored, "draft_generation", "raised", d, Nil, Nil)
  ELSE DraftGeneration_Drafted(pend, stored, resp, cat, d, prof, days_count, extracted.names,
               detected_muscle(u, extracted.names))

DraftGeneration_Counted(pend, stored, u, resp, cat, d, prof, days_count) ==
  DraftGeneration_Extracted(pend, stored, u, resp, cat, d, prof, days_count,
                            u.names[days_count + 1])

DraftGeneration_Profiled(pend, stored, u, resp, cat, d, prof) ==
  DraftGeneration_Counted(pend, stored, u, resp, cat, d, prof,
                          IF prof.days_count = -1 THEN 6 ELSE prof.days_count)

\* the DRAFT_GENERATION handler (lines 1112-1270) and, for a request that
\* names no muscle, the ASK_NAMES block it falls through to (1693-1766)
DraftGeneration(pend, stored, u, resp, cat, d) ==
  DraftGeneration_Profiled(pend, stored, u, resp, cat, d,
                           IF pend = Nil THEN FetchedProfile ELSE pend.profile)

\* what the turn records of an editing call
Outcome(r) == [st |-> r.st, tpl |-> r.tpl, summary |-> r.summary]

ApplyEdit_Edited(pend, stored, d, tpl, r) ==
  IF r.st = "ok" /\ ~RenderRaises(r.tpl)
  THEN TurnResult(Context(STATES.EDIT_DECISION,
                          IF pend = Nil THEN FetchedProfile ELSE pend.profile,
                          r.tpl),
                  stored, "edit_applied", "ok", d, tpl, Outcome(r))
  ELSE TurnResult(pend, stored, "edit_error",
                  IF r.st = "diverges" THEN "diverges" ELSE "ok", d, tpl, Outcome(r))

\* the template of the pending context, else the saved one
ApplyEdit_Given(pend, stored, u, resp, cat, d, tpl) ==
  IF tpl = Nil THEN TurnResult(pend, stored, "need_template", "ok", d, Nil, Nil)
  ELSE ApplyEdit_Edited(pend, stored, d, tpl, enhanced_edit_template(tpl, u.instr, resp, cat))

\* the APPLY_EDIT handler (lines 1274-1341)
ApplyEdit(pend, stored, u, resp, cat, d) ==
  ApplyEdit_Given(pend, stored, u, resp, cat, d,
                  IF pend # Nil /\ pend.template # Nil THEN pend.template ELSE stored)

\* the CONFIRM_SAVE handler (lines 1345-1364)
ConfirmSave(pend, stored, d) ==
  TurnResult(Context(STATES.CONFIRM_SAVE,
                     IF pend = Nil THEN FetchedProfile ELSE pend.profile,
                     IF pend = Nil THEN Nil ELSE pend.template),
             stored, "confirm_save", "ok", d, Nil, Nil)

\* a save handler that clears the conversation whether or not storing worked
Done_ClearingAnyway(pend, stored, store_ok, d) ==
  IF store_ok
  THEN TurnResult(Nil, IF pend = Nil THEN Nil ELSE pend.template, "stored", "ok", d, Nil, Nil)
  ELSE TurnResult(Nil, stored, "store_error", "ok", d, Nil, Nil)

\* the DONE handler (lines 1367-1408); store_ok: _store_template succeeded
Done(pend, stored, store_ok, d) ==
  IF store_ok
  THEN TurnResult(Nil, IF pend = Nil THEN Nil ELSE pend.template, "stored", "ok", d, Nil, Nil)
  ELSE TurnResult(pend, stored, "store_error", "ok", d, Nil, Nil)

\* the blocks after the handler chain (lines 1415-1803).  They are reached
\* only with next_state "ask_days" or "edit_decision": from EDIT_DECISION
\* every next state is answered by the chain above, so the EDIT_DECISION block
\* (1415-1544) never runs, and from CONFIRM_SAVE the chain answers "done" and
\* "apply_edit", which leaves the negative reply of lines 1602-1619.
ContextBlocks(pend, stored, u, d) ==
  IF /\ d.state = STATES.CONFIRM_SAVE
     /\ ~(u.positive \/ Lower(Strip(u.text)) \in {<<"s","a","v","e">>, <<"y","e","s">>, <<"c","o","n","f","i","r","m">>})
     /\ u.negative
  THEN TurnResult(Context(STATES.EDIT_DECISION, pend.profile, pend.template), stored,
                  "back_to_edit", "ok", d, Nil, Nil)
  ELSE TurnResult(pend, stored, "fallback", "ok", d, Nil, Nil)

\* a show handler that drops the pending conversation
ShowTemplate_Forgetting(pend, stored, d) ==
  TurnResult(Nil, stored, IF stored = Nil THEN "no_template" ELSE "show_saved", "ok", d, Nil, Nil)

\* the SHOW TEMPLATE handler (lines 1005-1038); stored is the saved template,
\* Nil when _get_saved_template finds none
ShowTemplate(pend, stored, d) ==
  IF stored = Nil THEN TurnResult(pend, stored, "no_template", "ok", d, Nil, Nil)
  ELSE IF RenderRaises(stored) THEN TurnResult(pend, stored, "show_saved", "raised", d, Nil, Nil)
  ELSE TurnResult(pend, stored, "show_saved", "ok", d, Nil, Nil)

ultra_flexible_workout_stream_Handled(pend, stored, u, resp, cat, store_ok, d) ==
  IF d.state = d.next_state /\ d.state # STATES.START
  THEN TurnResult(pend, stored, "no_change", "ok", d, Nil, Nil)
  ELSE IF d.next_state = "SHOW_TEMPLATE" \/ (d.intent = "show" /\ d.confidence > 2500)
  THEN ShowTemplate(pend, stored, d)
  ELSE IF d.next_state = STATES.FETCH_PROFILE THEN FetchProfile(pend, stored, u, d)
  ELSE IF d.next_state = STATES.ASK_NAMES THEN AskNames(pend, stored, u, d)
  ELSE IF d.next_state = STATES.DRAFT_GENERATION
  THEN DraftGeneration(pend, stored, u, resp, cat, d)
  ELSE IF d.next_state = STATES.APPLY_EDIT THEN ApplyEdit(pend, stored, u, resp, cat, d)
  ELSE IF d.next_state = STATES.CONFIRM_SAVE THEN ConfirmSave(pend, stored, d)
  ELSE IF d.next_state = STATES.DONE THEN Done(pend, stored, store_ok, d)
  ELSE ContextBlocks(pend, stored, u, d)

\* ultra_flexible_workout_stream(user_id, text, mem, oai, db) for a text that
\* is not blank.  pend is mem.get_pending(user_id), stored the saved template,
\* resp what the language model answers if it is asked, store_ok whether
\* _store_template succeeds if it is called.
ultra_flexible_workout_stream(pend, stored, u, resp, cat, store_ok) ==
  ultra_flexible_workout_stream_Handled(pend, stored, u, resp, cat, store_ok, Decide(pend, u))

Consults_Generates(u, prof, extracted) ==
  IF /\ ~extracted.raised
     /\ detected_muscle(u, extracted.names) = <<>>
     /\ prof.muscle_focus = <<>>
     /\ ~(Len(extracted.names) = 1
          /\ Lower(extracted.names[1]) \in single_muscle_names)
  THEN "generate" ELSE "none"

Consults_Profiled(u, prof) ==
  Consults_Generates(u, prof, u.names[(IF prof.days_count = -1 THEN 6 ELSE prof.days_count) + 1])

Consults_Edits(u, tpl) == IF tpl # Nil /\ ~SettledByRule(tpl, u.instr) THEN "edit" ELSE "none"

Consults_Asked(pend, stored, u, d) ==
  IF d.state = d.next_state /\ d.state # STATES.START THEN "none"
  ELSE IF d.next_state = STATES.DRAFT_GENERATION
  THEN Consults_Profiled(u, IF pend = Nil THEN FetchedProfile ELSE pend.profile)
  ELSE IF d.next_state = STATES.APPLY_EDIT
  THEN Consults_Edits(u, IF pend # Nil /\ pend.template # Nil THEN pend.template ELSE stored)
  ELSE "none"

\* which call of the language model, if any, the turn makes
Consults(pend, stored, u) ==
  Consults_Asked(pend, stored, u, Decide(pend, u))

(***************************************************************************)
(* Documents the gate is handed                                            *)
(***************************************************************************)
Tpl(days) == [name |-> <<"W">>, days |-> days]

Monday  == <<"M","o","n","d","a","y">>
Tuesday == <<"T","u","e","s","d","a","y">>

\* what llm_generate_template_from_profile hands the gate (lines 2083-2102):
\* the model's JSON, cut down to the requested day keys, with a skeleton day
\* for each key the model left out; or a document under edit (line 2264)
GateInputs == <<
  [tpl |-> _template_skeleton_dynamic(<<Monday, Tuesday>>), names |-> <<Monday, Tuesday>>],
  [tpl |-> Tpl(<<Day(push_day, <<"P","u","s","h">>, <<chest>>, Range(3, 8)),
                 Day(pull_day, <<"P","u","l","l">>, <<back>>, <<>>)>>),
   names |-> <<<<"P","u","s","h","_","D","a","y">>, <<"P","u","l","l","_","D","a","y">>>>],
  [tpl |-> Tpl(<<Day(monday, Monday, <<chest>>,
                     <<ExUnknownId, ExNoIdName, ExInvented, ExForeignId>>)>>),
   names |-> <<Monday>>],
  [tpl |-> Tpl(<<Day(monday, Monday, <<legs>>, Range(1, 9))>>), names |-> <<Monday>>],
  [tpl |-> Tpl(<<Day(monday, Monday, <<>>, Range(1, 6)),
                 Day(Day5, Day5, <<full_body>>, <<ExInvented>>)>>),
   names |-> <<Monday, Day5>>],
  [tpl |-> Tpl(<<Day(monday, Monday, <<legs>>, Range(1, 9)),
                 Day(tuesday, Tuesday, <<legs>>,
                     <<ExInvented, ExNoIdName, ExUnknownId, ExNoIdName>>)>>),
   names |-> <<Monday, Tuesday>>],
  [tpl |-> Tpl(<<Day(monday, Monday, <<legs>>, Planned(1, 6))>>), names |-> <<Monday>>],
  [tpl |-> Tpl(<<Day(monday, Monday, <<legs>>,
                     <<Ex(1, CatalogRows[1].name, 0, 0)>> \o Planned(2, 6))>>),
   names |-> <<Monday>>] >>

(***************************************************************************)
(* Utterances, with what the parser and the editing patterns read in them  *)
(***************************************************************************)
U_i_need_a_new_workout_plan ==
  [text |-> <<"i"," ","n","e","e","d"," ","a"," ","n","e","w"," ","w","o","r","k","o","u","t"," ","p","l","a","n">>,
   create_conf |-> 5500, show_conf |-> 0, edit_conf |-> 0,
   days_count |-> 0,
   positive |-> FALSE, negative |-> FALSE,
   names |-> <<[raised |-> TRUE, names |-> <<>>],
              [raised |-> FALSE, names |-> <<<<"N","e","w">>>>],
              [raised |-> FALSE, names |-> <<<<"N","e","w">>, <<"T","u","e","s","d","a","y">>>>],
              [raised |-> FALSE, names |-> <<<<"N","e","w">>, <<"T","u","e","s","d","a","y">>, <<"W","e","d","n","e","s","d","a","y">>>>],
              [raised |-> FALSE, names |-> <<<<"N","e","w">>, <<"T","u","e","s","d","a","y">>, <<"W","e","d","n","e","s","d","a","y">>, <<"T","h","u","r","s","d","a","y">>>>],
              [raised |-> FALSE, names |-> <<<<"N","e","w">>, <<"T","u","e","s","d","a","y">>, <<"W","e","d","n","e","s","d","a","y">>, <<"T","h","u","r","s","d","a","y">>, <<"F","r","i","d","a","y">>>>],
              [raised |-> FALSE, names |-> <<<<"N","e","w">>, <<"T","u","e","s","d","a","y">>, <<"W","e","d","n","e","s","d","a","y">>, <<"T","h","u","r","s","d","a","y">>, <<"F","r","i","d","a","y">>, <<"S","a","t","u","r","d","a","y">>>>],
              [raised |-> FALSE, names |-> <<<<"N","e","w">>, <<"T","u","e","s","d","a","y">>, <<"W","e","d","n","e","s","d","a","y">>, <<"T","h","u","r","s","d","a","y">>, <<"F","r","i","d","a","y">>, <<"S","a","t","u","r","d","a","y">>, <<"S","u","n","d","a","y">>>>]>>,
   info |-> [is_muscle_specific_template |-> FALSE, muscle_focus |-> <<>>, has_days_info |-> FALSE,
             days_count |-> 0],
   instr |-> [text |-> <<"i"," ","n","e","e","d"," ","a"," ","n","e","w"," ","w","o","r","k","o","u","t"," ","p","l","a","n">>,
     bulk |-> [is_bulk_operation |-> FALSE, operation |-> "none", target_muscle |-> <<>>, target_days |-> "all", specific_count |-> 0],
     title |-> [wants_title_change |-> FALSE, target_day |-> <<>>, new_title |-> <<>>],
     target_days |-> -1,
     add_matches |-> <<>>,
     add_alts |-> <<>>,
     week_hits |-> <<>>,
     day_hits |-> <<>>,
     candidate_phrases |-> <<<<"n","e","e","d"," ","n","e","w"," ","p","l","a","n">>, <<"n","e","e","d"," ","n","e","w">>, <<"n","e","w"," ","p","l","a","n">>, <<"n","e","e","d">>, <<"p","l","a","n">>>>,
     day_muscle |-> <<>>,
     replacement |-> <<>>,
     alt_names |-> <<>>,
     words |-> <<<<"i">>, <<"n","e","e","d">>, <<"a">>, <<"n","e","w">>, <<"w","o","r","k","o","u","t">>, <<"p","l","a","n">>>>]]

U_make_me_a_workout ==
  [text |-> <<"m","a","k","e"," ","m","e"," ","a"," ","w","o","r","k","o","u","t">>,
   create_conf |-> 3000, show_conf |-> 0, edit_conf |-> 0,
   days_count |-> 0,
   positive |-> FALSE, negative |-> FALSE,
   names |-> <<[raised |-> TRUE, names |-> <<>>],
              [raised |-> FALSE, names |-> <<<<"M","o","n","d","a","y">>>>],
              [raised |-> FALSE, names |-> <<<<"M","o","n","d","a","y">>, <<"T","u","e","s","d","a","y">>>>],
              [raised |-> FALSE, names |-> <<<<"M","o","n","d","a","y">>, <<"T","u","e","s","d","a","y">>, <<"W","e","d","n","e","s","d","a","y">>>>],
              [raised |-> FALSE, names |-> <<<<"M","o","n","d","a","y">>, <<"T","u","e","s","d","a","y">>, <<"W","e","d","n","e","s","d","a","y">>, <<"T","h","u","r","s","d","a","y">>>>],
              [raised |-> FALSE, names |-> <<<<"M","o","n","d","a","y">>, <<"T","u","e","s","d","a","y">>, <<"W","e","d","n","e","s","d","a","y">>, <<"T","h","u","r","s","d","a","y">>, <<"F","r","i","d","a","y">>>>],
              [raised |-> FALSE, names |-> <<<<"M","o","n","d","a","y">>, <<"T","u","e","s","d","a","y">>, <<"W","e","d","n","e","s","d","a","y">>, <<"T","h","u","r","s","d","a","y">>, <<"F","r","i","d","a","y">>, <<"S","a","t","u","r","d","a","y">>>>],
              [raised |-> FALSE, names |-> <<<<"M","o","n","d","a","y">>, <<"T","u","e","s","d","a","y">>, <<"W","e","d","n","e","s","d","a","y">>, <<"T","h","u","r","s","d","a","y">>, <<"F","r","i","d","a","y">>, <<"S","a","t","u","r","d","a","y">>, <<"S","u","n","d","a","y">>>>]>>,
   info |-> [is_muscle_specific_template |-> FALSE, muscle_focus |-> <<>>, has_days_info |-> FALSE,
             days_count |-> 0],
   instr |-> [text |-> <<"m","a","k","e"," ","m","e"," ","a"," ","w","o","r","k","o","u","t">>,
     bulk |-> [is_bulk_operation |-> FALSE, operation |-> "replace", target_muscle |-> <<>>, target_days |-> "all", specific_count |-> 0],
     title |-> [wants_title_change |-> FALSE, target_day |-> <<>>, new_title |-> <<>>],
     target_days |-> -1,
     add_matches |-> <<>>,
     add_alts |-> <<>>,
     week_hits |-> <<>>,
     day_hits |-> <<>>,
     candidate_phrases |-> <<<<"m","a","k","e">>>>,
     day_muscle |-> <<>>,
     replacement |-> <<>>,
     alt_names |-> <<>>,
     words |-> <<<<"m","a","k","e">>, <<"m","e">>, <<"a">>, <<"w","o","r","k","o","u","t">>>>]]

U_build_me_a_3_day_leg_workout_plan ==
  [text |-> <<"b","u","i","l","d"," ","m","e"," ","a"," ","3"," ","d","a","y"," ","l","e","g"," ","w","o","r","k","o","u","t"," ","p","l","a","n">>,
   create_conf |-> 3500, show_conf |-> 0, edit_conf |-> 0,
   days_count |-> 3,
   positive |-> FALSE, negative |-> FALSE,
   names |-> <<[raised |-> TRUE, names |-> <<>>],
              [raised |-> FALSE, names |-> <<<<"3"," ","D","a","y">>>>],
              [raised |-> FALSE, names |-> <<<<"L","e","g">>, <<"T","u","e","s","d","a","y">>>>],
              [raised |-> FALSE, names |-> <<<<"L","e","g">>, <<"T","u","e","s","d","a","y">>, <<"W","e","d","n","e","s","d","a","y">>>>],
              [raised |-> FALSE, names |-> <<<<"L","e","g">>, <<"T","u","e","s","d","a","y">>, <<"W","e","d","n","e","s","d","a","y">>, <<"T","h","u","r","s","d","a","y">>>>],
              [raised |-> FALSE, names |-> <<<<"L","e","g">>, <<"T","u","e","s","d","a","y">>, <<"W","e","d","n","e","s","d","a","y">>, <<"T","h","u","r","s","d","a","y">>, <<"F","r","i","d","a","y">>>>],
              [raised |-> FALSE, names |-> <<<<"L","e","g">>, <<"T","u","e","s","d","a","y">>, <<"W","e","d","n","e","s","d","a","y">>, <<"T","h","u","r","s","d","a","y">>, <<"F","r","i","d","a","y">>, <<"S","a","t","u","r","d","a","y">>>>],
              [raised |-> FALSE, names |-> <<<<"L","e","g">>, <<"T","u","e","s","d","a","y">>, <<"W","e","d","n","e","s","d","a","y">>, <<"T","h","u","r","s","d","a","y">>, <<"F","r","i","d","a","y">>, <<"S","a","t","u","r","d","a","y">>, <<"S","u","n","d","a","y">>>>]>>,
   info |-> [is_muscle_specific_template |-> TRUE, muscle_focus |-> <<"l","e","g","s">>, has_days_info |-> TRUE, days_count |-> 3],
   instr |-> [text |-> <<"b","u","i","l","d"," ","m","e"," ","a"," ","3"," ","d","a","y"," ","l","e","g"," ","w","o","r","k","o","u","t"," ","p","l","a","n">>,
     bulk |-> [is_bulk_operation |-> TRUE, operation |-> "none", target_muscle |-> <<"l","e","g","s">>, target_days |-> "specific_count", specific_count |-> 3],
     title |-> [wants_title_change |-> FALSE, target_day |-> <<>>, new_title |-> <<>>],
     target_days |-> 3,
     add_matches |-> <<>>,
     add_alts |-> <<>>,
     week_hits |-> <<>>,
     day_hits |-> <<>>,
     candidate_phrases |-> <<<<"b","u","i","l","d"," ","l","e","g"," ","p","l","a","n">>, <<"b","u","i","l","d"," ","l","e","g">>, <<"l","e","g"," ","p","l","a","n">>, <<"b","u","i","l","d">>, <<"p","l","a","n">>>>,
     day_muscle |-> <<>>,
     replacement |-> <<>>,
     alt_names |-> <<>>,
     words |-> <<<<"b","u","i","l","d">>, <<"m","e">>, <<"a">>, <<"d","a","y">>, <<"l","e","g">>, <<"w","o","r","k","o","u","t">>, <<"p","l","a","n">>>>]]

U_show_my_template ==
  [text |-> <<"s","h","o","w"," ","m","y"," ","t","e","m","p","l","a","t","e">>,
   create_conf |-> 1500, show_conf |-> 5643, edit_conf |-> 0,
   days_count |-> 1,
   positive |-> FALSE, negative |-> FALSE,
   names |-> <<[raised |-> TRUE, names |-> <<>>],
              [raised |-> FALSE, names |-> <<<<"T","u","e","s","d","a","y">>>>],
              [raised |-> FALSE, names |-> <<<<"T","u","e","s","d","a","y">>, <<"M","o","n","d","a","y">>>>],
              [raised |-> FALSE, names |-> <<<<"T","u","e","s","d","a","y">>, <<"M","o","n","d","a","y">>, <<"W","e","d","n","e","s","d","a","y">>>>],
              [raised |-> FALSE, names |-> <<<<"T","u","e","s","d","a","y">>, <<"M","o","n","d","a","y">>, <<"W","e","d","n","e","s","d","a","y">>, <<"T","h","u","r","s","d","a","y">>>>],
              [raised |-> FALSE, names |-> <<<<"T","u","e","s","d","a","y">>, <<"M","o","n","d","a","y">>, <<"W","e","d","n","e","s","d","a","y">>, <<"T","h","u","r","s","d","a","y">>, <<"F","r","i","d","a","y">>>>],
              [raised |-> FALSE, names |-> <<<<"T","u","e","s","d","a","y">>, <<"M","o","n","d","a","y">>, <<"W","e","d","n","e","s","d","a","y">>, <<"T","h","u","r","s","d","a","y">>, <<"F","r","i","d","a","y">>, <<"S","a","t","u","r","d","a","y">>>>],
              [raised |-> FALSE, names |-> <<<<"T","u","e","s","d","a","y">>, <<"M","o","n","d","a","y">>, <<"W","e","d","n","e","s","d","a","y">>, <<"T","h","u","r","s","d","a","y">>, <<"F","r","i","d","a","y">>, <<"S","a","t","u","r","d","a","y">>, <<"S","u","n","d","a","y">>>>]>>,
   info |-> [is_muscle_specific_template |-> FALSE, muscle_focus |-> <<>>, has_days_info |-> TRUE,
             days_count |-> 1],
   instr |-> [text |-> <<"s","h","o","w"," ","m","y"," ","t","e","m","p","l","a","t","e">>,
     bulk |-> [is_bulk_operation |-> FALSE, operation |-> "none", target_muscle |-> <<>>, target_days |-> "all", specific_count |-> 0],
     title |-> [wants_title_change |-> FALSE, target_day |-> <<>>, new_title |-> <<>>],
     target_days |-> -1,
     add_matches |-> <<>>,
     add_alts |-> <<>>,
     week_hits |-> <<>>,
     day_hits |-> <<>>,
     candidate_phrases |-> <<<<"s","h","o","w"," ","t","e","m","p","l","a","t","e">>, <<"s","h","o","w">>, <<"t","e","m","p","l","a","t","e">>>>,
     day_muscle |-> <<>>,
     replacement |-> <<>>,
     alt_names |-> <<>>,
     words |-> <<<<"s","h","o","w">>, <<"m","y">>, <<"t","e","m","p","l","a","t","e">>>>]]

U_3_days ==
  [text |-> <<"3"," ","d","a","y","s">>,
   create_conf |-> 0, show_conf |-> 0, edit_conf |-> 0,
   days_count |-> 3,
   positive |-> FALSE, negative |-> FALSE,
   names |-> <<[raised |-> TRUE, names |-> <<>>],
              [raised |-> FALSE, names |-> <<<<"3"," ","D","a","y">>>>],
              [raised |-> FALSE, names |-> <<<<"M","o","n","d","a","y">>, <<"T","u","e","s","d","a","y">>>>],
              [raised |-> FALSE, names |-> <<<<"M","o","n","d","a","y">>, <<"T","u","e","s","d","a","y">>, <<"W","e","d","n","e","s","d","a","y">>>>],
              [raised |-> FALSE, names |-> <<<<"M","o","n","d","a","y">>, <<"T","u","e","s","d","a","y">>, <<"W","e","d","n","e","s","d","a","y">>, <<"T","h","u","r","s","d","a","y">>>>],
              [raised |-> FALSE, names |-> <<<<"M","o","n","d","a","y">>, <<"T","u","e","s","d","a","y">>, <<"W","e","d","n","e","s","d","a","y">>, <<"T","h","u","r","s","d","a","y">>, <<"F","r","i","d","a","y">>>>],
              [raised |-> FALSE, names |-> <<<<"M","o","n","d","a","y">>, <<"T","u","e","s","d","a","y">>, <<"W","e","d","n","e","s","d","a","y">>, <<"T","h","u","r","s","d","a","y">>, <<"F","r","i","d","a","y">>, <<"S","a","t","u","r","d","a","y">>>>],
              [raised |-> FALSE, names |-> <<<<"M","o","n","d","a","y">>, <<"T","u","e","s","d","a","y">>, <<"W","e","d","n","e","s","d","a","y">>, <<"T","h","u","r","s","d","a","y">>, <<"F","r","i","d","a","y">>, <<"S","a","t","u","r","d","a","y">>, <<"S","u","n","d","a","y">>>>]>>,
   info |-> [is_muscle_specific_template |-> FALSE, muscle_focus |-> <<>>, has_days_info |-> TRUE,
             days_count |-> 3],
   instr |-> [text |-> <<"3"," ","d","a","y","s">>,
     bulk |-> [is_bulk_operation |-> TRUE, operation |-> "none", target_muscle |-> <<>>, target_days |-> "specific_count", specific_count |-> 3],
     title |-> [wants_title_change |-> FALSE, target_day |-> <<>>, new_title |-> <<>>],
     target_days |-> 3,
     add_matches |-> <<>>,
     add_alts |-> <<>>,
     week_hits |-> <<>>,
     day_hits |-> <<>>,
     candidate_phrases |-> <<<<"d","a","y","s">>>>,
     day_muscle |-> <<>>,
     replacement |-> <<>>,
     alt_names |-> <<>>,
     words |-> <<<<"d","a","y","s">>>>]]

U_skip ==
  [text |-> <<"s","k","i","p">>,
   create_conf |-> 0, show_conf |-> 0, edit_conf |-> 0,
   days_count |-> 0,
   positive |-> FALSE, negative |-> TRUE,
   names |-> <<[raised |-> TRUE, names |-> <<>>],
              [raised |-> FALSE, names |-> <<<<"M","o","n","d","a","y">>>>],
              [raised |-> FALSE, names |-> <<<<"M","o","n","d","a","y">>, <<"T","u","e","s","d","a","y">>>>],
              [raised |-> FALSE, names |-> <<<<"M","o","n","d","a","y">>, <<"T","u","e","s","d","a","y">>, <<"W","e","d","n","e","s","d","a","y">>>>],
              [raised |-> FALSE, names |-> <<<<"M","o","n","d","a","y">>, <<"T","u","e","s","d","a","y">>, <<"W","e","d","n","e","s","d","a","y">>, <<"T","h","u","r","s","d","a","y">>>>],
              [raised |-> FALSE, names |-> <<<<"M","o","n","d","a","y">>, <<"T","u","e","s","d","a","y">>, <<"W","e","d","n","e","s","d","a","y">>, <<"T","h","u","r","s","d","a","y">>, <<"F","r","i","d","a","y">>>>],
              [raised |-> FALSE, names |-> <<<<"M","o","n","d","a","y">>, <<"T","u","e","s","d","a","y">>, <<"W","e","d","n","e","s","d","a","y">>, <<"T","h","u","r","s","d","a","y">>, <<"F","r","i","d","a","y">>, <<"S","a","t","u","r","d","a","y">>>>],
              [raised |-> FALSE, names |-> <<<<"M","o","n","d","a","y">>, <<"T","u","e","s","d","a","y">>, <<"W","e","d","n","e","s","d","a","y">>, <<"T","h","u","r","s","d","a","y">>, <<"F","r","i","d","a","y">>, <<"S","a","t","u","r","d","a","y">>, <<"S","u","n","d","a","y">>>>]>>,
   info |-> [is_muscle_specific_template |-> FALSE, muscle_focus |-> <<>>, has_days_info |-> FALSE,
             days_count |-> 0],
   instr |-> [text |-> <<"s","k","i","p">>,
     bulk |-> [is_bulk_operation |-> FALSE, operation |-> "none", target_muscle |-> <<>>, target_days |-> "all", specific_count |-> 0],
     title |-> [wants_title_change |-> FALSE, target_day |-> <<>>, new_title |-> <<>>],
     target_days |-> -1,
     add_matches |-> <<>>,
     add_alts |-> <<>>,
     week_hits |-> <<>>,
     day_hits |-> <<>>,
     candidate_phrases |-> <<<<"s","k","i","p">>>>,
     day_muscle |-> <<>>,
     replacement |-> <<>>,
     alt_names |-> <<>>,
     words |-> <<<<"s","k","i","p">>>>]]

U_push_pull ==
  [text |-> <<"p","u","s","h",","," ","p","u","l","l">>,
   create_conf |-> 0, show_conf |-> 0, edit_conf |-> 0,
   days_count |-> 0,
   positive |-> FALSE, negative |-> FALSE,
   names |-> <<[raised |-> TRUE, names |-> <<>>],
              [raised |-> FALSE, names |-> <<<<"P","u","s","h">>>>],
              [raised |-> FALSE, names |-> <<<<"P","u","s","h">>, <<"P","u","l","l">>>>],
              [raised |-> FALSE, names |-> <<<<"P","u","s","h">>, <<"P","u","l","l">>, <<"W","e","d","n","e","s","d","a","y">>>>],
              [raised |-> FALSE, names |-> <<<<"P","u","s","h">>, <<"P","u","l","l">>, <<"W","e","d","n","e","s","d","a","y">>, <<"T","h","u","r","s","d","a","y">>>>],
              [raised |-> FALSE, names |-> <<<<"P","u","s","h">>, <<"P","u","l","l">>, <<"W","e","d","n","e","s","d","a","y">>, <<"T","h","u","r","s","d","a","y">>, <<"F","r","i","d","a","y">>>>],
              [raised |-> FALSE, names |-> <<<<"P","u","s","h">>, <<"P","u","l","l">>, <<"W","e","d","n","e","s","d","a","y">>, <<"T","h","u","r","s","d","a","y">>, <<"F","r","i","d","a","y">>, <<"S","a","t","u","r","d","a","y">>>>],
              [raised |-> FALSE, names |-> <<<<"P","u","s","h">>, <<"P","u","l","l">>, <<"W","e","d","n","e","s","d","a","y">>, <<"T","h","u","r","s","d","a","y">>, <<"F","r","i","d","a","y">>, <<"S","a","t","u","r","d","a","y">>, <<"S","u","n","d","a","y">>>>]>>,
   info |-> [is_muscle_specific_template |-> FALSE, muscle_focus |-> <<>>, has_days_info |-> FALSE,
             days_count |-> 0],
   instr |-> [text |-> <<"p","u","s","h",","," ","p","u","l","l">>,
     bulk |-> [is_bulk_operation |-> FALSE, operation |-> "none", target_muscle |-> <<>>, target_days |-> "all", specific_count |-> 0],
     title |-> [wants_title_change |-> FALSE, target_day |-> <<>>, new_title |-> <<>>],
     target_days |-> -1,
     add_matches |-> <<>>,
     add_alts |-> <<>>,
     week_hits |-> <<>>,
     day_hits |-> <<>>,
     candidate_phrases |-> <<<<"p","u","s","h"," ","p","u","l","l">>, <<"p","u","s","h">>, <<"p","u","l","l">>>>,
     day_muscle |-> <<>>,
     replacement |-> <<>>,
     alt_names |-> <<>>,
     words |-> <<<<"p","u","s","h">>, <<"p","u","l","l">>>>]]

U_chest ==
  [text |-> <<"c","h","e","s","t">>,
   create_conf |-> 0, show_conf |-> 0, edit_conf |-> 0,
   days_count |-> 1,
   positive |-> FALSE, negative |-> FALSE,
   names |-> <<[raised |-> TRUE, names |-> <<>>],
              [raised |-> FALSE, names |-> <<<<"S","a","t","u","r","d","a","y">>>>],
              [raised |-> FALSE, names |-> <<<<"S","a","t","u","r","d","a","y">>, <<"M","o","n","d","a","y">>>>],
              [raised |-> FALSE, names |-> <<<<"S","a","t","u","r","d","a","y">>, <<"M","o","n","d","a","y">>, <<"T","u","e","s","d","a","y">>>>],
              [raised |-> FALSE, names |-> <<<<"S","a","t","u","r","d","a","y">>, <<"M","o","n","d","a","y">>, <<"T","u","e","s","d","a","y">>, <<"W","e","d","n","e","s","d","a","y">>>>],
              [raised |-> FALSE, names |-> <<<<"S","a","t","u","r","d","a","y">>, <<"M","o","n","d","a","y">>, <<"T","u","e","s","d","a","y">>, <<"W","e","d","n","e","s","d","a","y">>, <<"T","h","u","r","s","d","a","y">>>>],
              [raised |-> FALSE, names |-> <<<<"S","a","t","u","r","d","a","y">>, <<"M","o","n","d","a","y">>, <<"T","u","e","s","d","a","y">>, <<"W","e","d","n","e","s","d","a","y">>, <<"T","h","u","r","s","d","a","y">>, <<"F","r","i","d","a","y">>>>],
              [raised |-> FALSE, names |-> <<<<"S","a","t","u","r","d","a","y">>, <<"M","o","n","d","a","y">>, <<"T","u","e","s","d","a","y">>, <<"W","e","d","n","e","s","d","a","y">>, <<"T","h","u","r","s","d","a","y">>, <<"F","r","i","d","a","y">>, <<"S","u","n","d","a","y">>>>]>>,
   info |-> [is_muscle_specific_template |-> FALSE, muscle_focus |-> <<>>, has_days_info |-> TRUE,
             days_count |-> 1],
   instr |-> [text |-> <<"c","h","e","s","t">>,
     bulk |-> [is_bulk_operation |-> FALSE, operation |-> "none", target_muscle |-> <<>>, target_days |-> "all", specific_count |-> 0],
     title |-> [wants_title_change |-> FALSE, target_day |-> <<>>, new_title |-> <<>>],
     target_days |-> -1,
     add_matches |-> <<>>,
     add_alts |-> <<>>,
     week_hits |-> <<>>,
     day_hits |-> <<>>,
     candidate_phrases |-> <<<<"c","h","e","s","t">>>>,
     day_muscle |-> <<>>,
     replacement |-> <<>>,
     alt_names |-> <<>>,
     words |-> <<<<"c","h","e","s","t">>>>]]

U_yes ==
  [text |-> <<"y","e","s">>,
   create_conf |-> 0, show_conf |-> 0, edit_conf |-> 0,
   days_count |-> 0,
   positive |-> TRUE, negative |-> FALSE,
   names |-> <<[raised |-> TRUE, names |-> <<>>],
              [raised |-> FALSE, names |-> <<<<"Y","e","s">>>>],
              [raised |-> FALSE, names |-> <<<<"Y","e","s">>, <<"T","u","e","s","d","a","y">>>>],
              [raised |-> FALSE, names |-> <<<<"Y","e","s">>, <<"T","u","e","s","d","a","y">>, <<"W","e","d","n","e","s","d","a","y">>>>],
              [raised |-> FALSE, names |-> <<<<"Y","e","s">>, <<"T","u","e","s","d","a","y">>, <<"W","e","d","n","e","s","d","a","y">>, <<"T","h","u","r","s","d","a","y">>>>],
              [raised |-> FALSE, names |-> <<<<"Y","e","s">>, <<"T","u","e","s","d","a","y">>, <<"W","e","d","n","e","s","d","a","y">>, <<"T","h","u","r","s","d","a","y">>, <<"F","r","i","d","a","y">>>>],
              [raised |-> FALSE, names |-> <<<<"Y","e","s">>, <<"T","u","e","s","d","a","y">>, <<"W","e","d","n","e","s","d","a","y">>, <<"T","h","u","r","s","d","a","y">>, <<"F","r","i","d","a","y">>, <<"S","a","t","u","r","d","a","y">>>>],
              [raised |-> FALSE, names |-> <<<<"Y","e","s">>, <<"T","u","e","s","d","a","y">>, <<"W","e","d","n","e","s","d","a","y">>, <<"T","h","u","r","s","d","a","y">>, <<"F","r","i","d","a","y">>, <<"S","a","t","u","r","d","a","y">>, <<"S","u","n","d","a","y">>>>]>>,
   info |-> [is_muscle_specific_template |-> FALSE, muscle_focus |-> <<>>, has_days_info |-> FALSE,
             days_count |-> 0],
   instr |-> [text |-> <<"y","e","s">>,
     bulk |-> [is_bulk_operation |-> FALSE, operation |-> "none", target_muscle |-> <<>>, target_days |-> "all", specific_count |-> 0],
     title |-> [wants_title_change |-> FALSE, target_day |-> <<>>, new_title |-> <<>>],
     target_days |-> -1,
     add_matches |-> <<>>,
     add_alts |-> <<>>,
     week_hits |-> <<>>,
     day_hits |-> <<>>,
     candidate_phrases |-> <<>>,
     day_muscle |-> <<>>,
     replacement |-> <<>>,
     alt_names |-> <<>>,
     words |-> <<<<"y","e","s">>>>]]

U_no ==
  [text |-> <<"n","o">>,
   create_conf |-> 0, show_conf |-> 0, edit_conf |-> 0,
   days_count |-> 0,
   positive |-> FALSE, negative |-> TRUE,
   names |-> <<[raised |-> TRUE, names |-> <<>>],
              [raised |-> FALSE, names |-> <<<<"M","o","n","d","a","y">>>>],
              [raised |-> FALSE, names |-> <<<<"M","o","n","d","a","y">>, <<"T","u","e","s","d","a","y">>>>],
              [raised |-> FALSE, names |-> <<<<"M","o","n","d","a","y">>, <<"T","u","e","s","d","a","y">>, <<"W","e","d","n","e","s","d","a","y">>>>],
              [raised |-> FALSE, names |-> <<<<"M","o","n","d","a","y">>, <<"T","u","e","s","d","a","y">>, <<"W","e","d","n","e","s","d","a","y">>, <<"T","h","u","r","s","d","a","y">>>>],
              [raised |-> FALSE, names |-> <<<<"M","o","n","d","a","y">>, <<"T","u","e","s","d","a","y">>, <<"W","e","d","n","e","s","d","a","y">>, <<"T","h","u","r","s","d","a","y">>, <<"F","r","i","d","a","y">>>>],
              [raised |-> FALSE, names |-> <<<<"M","o","n","d","a","y">>, <<"T","u","e","s","d","a","y">>, <<"W","e","d","n","e","s","d","a","y">>, <<"T","h","u","r","s","d","a","y">>, <<"F","r","i","d","a","y">>, <<"S","a","t","u","r","d","a","y">>>>],
              [raised |-> FALSE, names |-> <<<<"M","o","n","d","a","y">>, <<"T","u","e","s","d","a","y">>, <<"W","e","d","n","e","s","d","a","y">>, <<"T","h","u","r","s","d","a","y">>, <<"F","r","i","d","a","y">>, <<"S","a","t","u","r","d","a","y">>, <<"S","u","n","d","a","y">>>>]>>,
   info |-> [is_muscle_specific_template |-> FALSE, muscle_focus |-> <<>>, has_days_info |-> FALSE,
             days_count |-> 0],
   instr |-> [text |-> <<"n","o">>,
     bulk |-> [is_bulk_operation |-> FALSE, operation |-> "none", target_muscle |-> <<>>, target_days |-> "all", specific_count |-> 0],
     title |-> [wants_title_change |-> FALSE, target_day |-> <<>>, new_title |-> <<>>],
     target_days |-> -1,
     add_matches |-> <<>>,
     add_alts |-> <<>>,
     week_hits |-> <<>>,
     day_hits |-> <<>>,
     candidate_phrases |-> <<>>,
     day_muscle |-> <<>>,
     replacement |-> <<>>,
     alt_names |-> <<>>,
     words |-> <<<<"n","o">>>>]]

U_save_it ==
  [text |-> <<"s","a","v","e"," ","i","t">>,
   create_conf |-> 0, show_conf |-> 571, edit_conf |-> 0,
   days_count |-> 1,
   positive |-> TRUE, negative |-> FALSE,
   names |-> <<[raised |-> TRUE, names |-> <<>>],
              [raised |-> FALSE, names |-> <<<<"S","a","t","u","r","d","a","y">>>>],
              [raised |-> FALSE, names |-> <<<<"S","a","t","u","r","d","a","y">>, <<"M","o","n","d","a","y">>>>],
              [raised |-> FALSE, names |-> <<<<"S","a","t","u","r","d","a","y">>, <<"M","o","n","d","a","y">>, <<"T","u","e","s","d","a","y">>>>],
              [raised |-> FALSE, names |-> <<<<"S","a","t","u","r","d","a","y">>, <<"M","o","n","d","a","y">>, <<"T","u","e","s","d","a","y">>, <<"W","e","d","n","e","s","d","a","y">>>>],
              [raised |-> FALSE, names |-> <<<<"S","a","t","u","r","d","a","y">>, <<"M","o","n","d","a","y">>, <<"T","u","e","s","d","a","y">>, <<"W","e","d","n","e","s","d","a","y">>, <<"T","h","u","r","s","d","a","y">>>>],
              [raised |-> FALSE, names |-> <<<<"S","a","t","u","r","d","a","y">>, <<"M","o","n","d","a","y">>, <<"T","u","e","s","d","a","y">>, <<"W","e","d","n","e","s","d","a","y">>, <<"T","h","u","r","s","d","a","y">>, <<"F","r","i","d","a","y">>>>],
              [raised |-> FALSE, names |-> <<<<"S","a","t","u","r","d","a","y">>, <<"M","o","n","d","a","y">>, <<"T","u","e","s","d","a","y">>, <<"W","e","d","n","e","s","d","a","y">>, <<"T","h","u","r","s","d","a","y">>, <<"F","r","i","d","a","y">>, <<"S","u","n","d","a","y">>>>]>>,
   info |-> [is_muscle_specific_template |-> FALSE, muscle_focus |-> <<>>, has_days_info |-> TRUE,
             days_count |-> 1],
   instr |-> [text |-> <<"s","a","v","e"," ","i","t">>,
     bulk |-> [is_bulk_operation |-> FALSE, operation |-> "none", target_muscle |-> <<>>, target_days |-> "all", specific_count |-> 0],
     title |-> [wants_title_change |-> FALSE, target_day |-> <<>>, new_title |-> <<>>],
     target_days |-> -1,
     add_matches |-> <<>>,
     add_alts |-> <<>>,
     week_hits |-> <<>>,
     day_hits |-> <<>>,
     candidate_phrases |-> <<<<"s","a","v","e">>>>,
     day_muscle |-> <<>>,
     replacement |-> <<>>,
     alt_names |-> <<>>,
     words |-> <<<<"s","a","v","e">>, <<"i","t">>>>]]

U_hmm ==
  [text |-> <<"h","m","m">>,
   create_conf |-> 0, show_conf |-> 0, edit_conf |-> 0,
   days_count |-> 0,
   positive |-> FALSE, negative |-> FALSE,
   names |-> <<[raised |-> TRUE, names |-> <<>>],
              [raised |-> FALSE, names |-> <<<<"H","m","m">>>>],
              [raised |-> FALSE, names |-> <<<<"H","m","m">>, <<"T","u","e","s","d","a","y">>>>],
              [raised |-> FALSE, names |-> <<<<"H","m","m">>, <<"T","u","e","s","d","a","y">>, <<"W","e","d","n","e","s","d","a","y">>>>],
              [raised |-> FALSE, names |-> <<<<"H","m","m">>, <<"T","u","e","s","d","a","y">>, <<"W","e","d","n","e","s","d","a","y">>, <<"T","h","u","r","s","d","a","y">>>>],
              [raised |-> FALSE, names |-> <<<<"H","m","m">>, <<"T","u","e","s","d","a","y">>, <<"W","e","d","n","e","s","d","a","y">>, <<"T","h","u","r","s","d","a","y">>, <<"F","r","i","d","a","y">>>>],
              [raised |-> FALSE, names |-> <<<<"H","m","m">>, <<"T","u","e","s","d","a","y">>, <<"W","e","d","n","e","s","d","a","y">>, <<"T","h","u","r","s","d","a","y">>, <<"F","r","i","d","a","y">>, <<"S","a","t","u","r","d","a","y">>>>],
              [raised |-> FALSE, names |-> <<<<"H","m","m">>, <<"T","u","e","s","d","a","y">>, <<"W","e","d","n","e","s","d","a","y">>, <<"T","h","u","r","s","d","a","y">>, <<"F","r","i","d","a","y">>, <<"S","a","t","u","r","d","a","y">>, <<"S","u","n","d","a","y">>>>]>>,
   info |-> [is_muscle_specific_template |-> FALSE, muscle_focus |-> <<>>, has_days_info |-> FALSE,
             days_count |-> 0],
   instr |-> [text |-> <<"h","m","m">>,
     bulk |-> [is_bulk_operation |-> FALSE, operation |-> "none", target_muscle |-> <<>>, target_days |-> "all", specific_count |-> 0],
     title |-> [wants_title_change |-> FALSE, target_day |-> <<>>, new_title |-> <<>>],
     target_days |-> -1,
     add_matches |-> <<>>,
     add_alts |-> <<>>,
     week_hits |-> <<>>,
     day_hits |-> <<>>,
     candidate_phrases |-> <<>>,
     day_muscle |-> <<>>,
     replacement |-> <<>>,
     alt_names |-> <<>>,
     words |-> <<<<"h","m","m">>>>]]

U_i_want_5_days ==
  [text |-> <<"i"," ","w","a","n","t"," ","5"," ","d","a","y","s">>,
   create_conf |-> 0, show_conf |-> 0, edit_conf |-> 0,
   days_count |-> 5,
   positive |-> FALSE, negative |-> FALSE,
   names |-> <<[raised |-> TRUE, names |-> <<>>],
              [raised |-> FALSE, names |-> <<<<"5"," ","D","a","y">>>>],
              [raised |-> FALSE, names |-> <<<<"M","o","n","d","a","y">>, <<"T","u","e","s","d","a","y">>>>],
              [raised |-> FALSE, names |-> <<<<"M","o","n","d","a","y">>, <<"T","u","e","s","d","a","y">>, <<"W","e","d","n","e","s","d","a","y">>>>],
              [raised |-> FALSE, names |-> <<<<"M","o","n","d","a","y">>, <<"T","u","e","s","d","a","y">>, <<"W","e","d","n","e","s","d","a","y">>, <<"T","h","u","r","s","d","a","y">>>>],
              [raised |-> FALSE, names |-> <<<<"M","o","n","d","a","y">>, <<"T","u","e","s","d","a","y">>, <<"W","e","d","n","e","s","d","a","y">>, <<"T","h","u","r","s","d","a","y">>, <<"F","r","i","d","a","y">>>>],
              [raised |-> FALSE, names |-> <<<<"M","o","n","d","a","y">>, <<"T","u","e","s","d","a","y">>, <<"W","e","d","n","e","s","d","a","y">>, <<"T","h","u","r","s","d","a","y">>, <<"F","r","i","d","a","y">>, <<"S","a","t","u","r","d","a","y">>>>],
              [raised |-> FALSE, names |-> <<<<"M","o","n","d","a","y">>, <<"T","u","e","s","d","a","y">>, <<"W","e","d","n","e","s","d","a","y">>, <<"T","h","u","r","s","d","a","y">>, <<"F","r","i","d","a","y">>, <<"S","a","t","u","r","d","a","y">>, <<"S","u","n","d","a","y">>>>]>>,
   info |-> [is_muscle_specific_template |-> FALSE, muscle_focus |-> <<>>, has_days_info |-> TRUE,
             days_count |-> 5],
   instr |-> [text |-> <<"i"," ","w","a","n","t"," ","5"," ","d","a","y","s">>,
     bulk |-> [is_bulk_operation |-> TRUE, operation |-> "none", target_muscle |-> <<>>, target_days |-> "specific_count", specific_count |-> 5],
     title |-> [wants_title_change |-> FALSE, target_day |-> <<>>, new_title |-> <<>>],
     target_days |-> 5,
     add_matches |-> <<>>,
     add_alts |-> <<>>,
     week_hits |-> <<>>,
     day_hits |-> <<>>,
     candidate_phrases |-> <<<<"w","a","n","t"," ","d","a","y","s">>, <<"w","a","n","t">>, <<"d","a","y","s">>>>,
     day_muscle |-> <<>>,
     replacement |-> <<>>,
     alt_names |-> <<>>,
     words |-> <<<<"i">>, <<"w","a","n","t">>, <<"d","a","y","s">>>>]]

U_remove_squat_from_monday ==
  [text |-> <<"r","e","m","o","v","e"," ","s","q","u","a","t"," ","f","r","o","m"," ","m","o","n","d","a","y">>,
   create_conf |-> 0, show_conf |-> 0, edit_conf |-> 1857,
   days_count |-> 2,
   positive |-> FALSE, negative |-> FALSE,
   names |-> <<[raised |-> TRUE, names |-> <<>>],
              [raised |-> FALSE, names |-> <<<<"M","o","n","d","a","y">>>>],
              [raised |-> FALSE, names |-> <<<<"M","o","n","d","a","y">>, <<"F","r","i","d","a","y">>>>],
              [raised |-> FALSE, names |-> <<<<"M","o","n","d","a","y">>, <<"F","r","i","d","a","y">>, <<"T","u","e","s","d","a","y">>>>],
              [raised |-> FALSE, names |-> <<<<"M","o","n","d","a","y">>, <<"F","r","i","d","a","y">>, <<"T","u","e","s","d","a","y">>, <<"W","e","d","n","e","s","d","a","y">>>>],
              [raised |-> FALSE, names |-> <<<<"M","o","n","d","a","y">>, <<"F","r","i","d","a","y">>, <<"T","u","e","s","d","a","y">>, <<"W","e","d","n","e","s","d","a","y">>, <<"T","h","u","r","s","d","a","y">>>>],
              [raised |-> FALSE, names |-> <<<<"M","o","n","d","a","y">>, <<"F","r","i","d","a","y">>, <<"T","u","e","s","d","a","y">>, <<"W","e","d","n","e","s","d","a","y">>, <<"T","h","u","r","s","d","a","y">>, <<"S","a","t","u","r","d","a","y">>>>],
              [raised |-> FALSE, names |-> <<<<"M","o","n","d","a","y">>, <<"F","r","i","d","a","y">>, <<"T","u","e","s","d","a","y">>, <<"W","e","d","n","e","s","d","a","y">>, <<"T","h","u","r","s","d","a","y">>, <<"S","a","t","u","r","d","a","y">>, <<"S","u","n","d","a","y">>>>]>>,
   info |-> [is_muscle_specific_template |-> FALSE, muscle_focus |-> <<>>, has_days_info |-> TRUE,
             days_count |-> 2],
   instr |-> [text |-> <<"r","e","m","o","v","e"," ","s","q","u","a","t"," ","f","r","o","m"," ","m","o","n","d","a","y">>,
     bulk |-> [is_bulk_operation |-> FALSE, operation |-> "none", target_muscle |-> <<>>, target_days |-> "all", specific_count |-> 0],
     title |-> [wants_title_change |-> FALSE, target_day |-> <<>>, new_title |-> <<>>],
     target_days |-> -1,
     add_matches |-> <<>>,
     add_alts |-> <<<<"D","u","m","b","e","l","l"," ","S","q","u","a","t","s">>>>,
     week_hits |-> <<<<"m","o","n","d","a","y">>>>,
     day_hits |-> <<<<"m","o","n","d","a","y">>>>,
     candidate_phrases |-> <<<<"s","q","u","a","t">>>>,
     day_muscle |-> <<>>,
     replacement |-> <<>>,
     alt_names |-> <<>>,
     words |-> <<<<"r","e","m","o","v","e">>, <<"s","q","u","a","t">>, <<"f","r","o","m">>, <<"m","o","n","d","a","y">>>>]]

U_change_all_exercises ==
  [text |-> <<"c","h","a","n","g","e"," ","a","l","l"," ","e","x","e","r","c","i","s","e","s">>,
   create_conf |-> 0, show_conf |-> 0, edit_conf |-> 1357,
   days_count |-> 0,
   positive |-> FALSE, negative |-> FALSE,
   names |-> <<[raised |-> TRUE, names |-> <<>>],
              [raised |-> FALSE, names |-> <<<<"C","h","a","n","g","e">>>>],
              [raised |-> FALSE, names |-> <<<<"C","h","a","n","g","e">>, <<"A","l","l">>>>],
              [raised |-> FALSE, names |-> <<<<"C","h","a","n","g","e">>, <<"A","l","l">>, <<"E","x","e","r","c","i","s","e","s">>>>],
              [raised |-> FALSE, names |-> <<<<"C","h","a","n","g","e">>, <<"A","l","l">>, <<"E","x","e","r","c","i","s","e","s">>, <<"T","h","u","r","s","d","a","y">>>>],
              [raised |-> FALSE, names |-> <<<<"C","h","a","n","g","e">>, <<"A","l","l">>, <<"E","x","e","r","c","i","s","e","s">>, <<"T","h","u","r","s","d","a","y">>, <<"F","r","i","d","a","y">>>>],
              [raised |-> FALSE, names |-> <<<<"C","h","a","n","g","e">>, <<"A","l","l">>, <<"E","x","e","r","c","i","s","e","s">>, <<"T","h","u","r","s","d","a","y">>, <<"F","r","i","d","a","y">>, <<"S","a","t","u","r","d","a","y">>>>],
              [raised |-> FALSE, names |-> <<<<"C","h","a","n","g","e">>, <<"A","l","l">>, <<"E","x","e","r","c","i","s","e","s">>, <<"T","h","u","r","s","d","a","y">>, <<"F","r","i","d","a","y">>, <<"S","a","t","u","r","d","a","y">>, <<"S","u","n","d","a","y">>>>]>>,
   info |-> [is_muscle_specific_template |-> FALSE, muscle_focus |-> <<>>, has_days_info |-> FALSE,
             days_count |-> 0],
   instr |-> [text |-> <<"c","h","a","n","g","e"," ","a","l","l"," ","e","x","e","r","c","i","s","e","s">>,
     bulk |-> [is_bulk_operation |-> FALSE, operation |-> "replace", target_muscle |-> <<>>, target_days |-> "all", specific_count |-> 0],
     title |-> [wants_title_change |-> FALSE, target_day |-> <<>>, new_title |-> <<>>],
     target_days |-> -1,
     add_matches |-> <<>>,
     add_alts |-> <<>>,
     week_hits |-> <<>>,
     day_hits |-> <<>>,
     candidate_phrases |-> <<>>,
     day_muscle |-> <<>>,
     replacement |-> <<>>,
     alt_names |-> <<>>,
     words |-> <<<<"c","h","a","n","g","e">>, <<"a","l","l">>, <<"e","x","e","r","c","i","s","e","s">>>>]]

U_make_it_harder ==
  [text |-> <<"m","a","k","e"," ","i","t"," ","h","a","r","d","e","r">>,
   create_conf |-> 1500, show_conf |-> 0, edit_conf |-> 857,
   days_count |-> 0,
   positive |-> FALSE, negative |-> FALSE,
   names |-> <<[raised |-> TRUE, names |-> <<>>],
              [raised |-> FALSE, names |-> <<<<"H","a","r","d","e","r">>>>],
              [raised |-> FALSE, names |-> <<<<"H","a","r","d","e","r">>, <<"T","u","e","s","d","a","y">>>>],
              [raised |-> FALSE, names |-> <<<<"H","a","r","d","e","r">>, <<"T","u","e","s","d","a","y">>, <<"W","e","d","n","e","s","d","a","y">>>>],
              [raised |-> FALSE, names |-> <<<<"H","a","r","d","e","r">>, <<"T","u","e","s","d","a","y">>, <<"W","e","d","n","e","s","d","a","y">>, <<"T","h","u","r","s","d","a","y">>>>],
              [raised |-> FALSE, names |-> <<<<"H","a","r","d","e","r">>, <<"T","u","e","s","d","a","y">>, <<"W","e","d","n","e","s","d","a","y">>, <<"T","h","u","r","s","d","a","y">>, <<"F","r","i","d","a","y">>>>],
              [raised |-> FALSE, names |-> <<<<"H","a","r","d","e","r">>, <<"T","u","e","s","d","a","y">>, <<"W","e","d","n","e","s","d","a","y">>, <<"T","h","u","r","s","d","a","y">>, <<"F","r","i","d","a","y">>, <<"S","a","t","u","r","d","a","y">>>>],
              [raised |-> FALSE, names |-> <<<<"H","a","r","d","e","r">>, <<"T","u","e","s","d","a","y">>, <<"W","e","d","n","e","s","d","a","y">>, <<"T","h","u","r","s","d","a","y">>, <<"F","r","i","d","a","y">>, <<"S","a","t","u","r","d","a","y">>, <<"S","u","n","d","a","y">>>>]>>,
   info |-> [is_muscle_specific_template |-> FALSE, muscle_focus |-> <<>>, has_days_info |-> FALSE,
             days_count |-> 0],
   instr |-> [text |-> <<"m","a","k","e"," ","i","t"," ","h","a","r","d","e","r">>,
     bulk |-> [is_bulk_operation |-> FALSE, operation |-> "replace", target_muscle |-> <<>>, target_days |-> "all", specific_count |-> 0],
     title |-> [wants_title_change |-> FALSE, target_day |-> <<>>, new_title |-> <<>>],
     target_days |-> -1,
     add_matches |-> <<>>,
     add_alts |-> <<>>,
     week_hits |-> <<>>,
     day_hits |-> <<>>,
     candidate_phrases |-> <<<<"m","a","k","e"," ","h","a","r","d","e","r">>, <<"m","a","k","e">>, <<"h","a","r","d","e","r">>>>,
     day_muscle |-> <<>>,
     replacement |-> <<>>,
     alt_names |-> <<>>,
     words |-> <<<<"m","a","k","e">>, <<"i","t">>, <<"h","a","r","d","e","r">>>>]]

U_i_want_to_edit_my_template ==
  [text |-> <<"i"," ","w","a","n","t"," ","t","o"," ","e","d","i","t"," ","m","y"," ","t","e","m","p","l","a","t","e">>,
   create_conf |-> 1500, show_conf |-> 2071, edit_conf |-> 2214,
   days_count |-> 1,
   positive |-> FALSE, negative |-> FALSE,
   names |-> <<[raised |-> TRUE, names |-> <<>>],
              [raised |-> FALSE, names |-> <<<<"T","u","e","s","d","a","y">>>>],
              [raised |-> FALSE, names |-> <<<<"T","u","e","s","d","a","y">>, <<"M","o","n","d","a","y">>>>],
              [raised |-> FALSE, names |-> <<<<"T","u","e","s","d","a","y">>, <<"M","o","n","d","a","y">>, <<"W","e","d","n","e","s","d","a","y">>>>],
              [raised |-> FALSE, names |-> <<<<"T","u","e","s","d","a","y">>, <<"M","o","n","d","a","y">>, <<"W","e","d","n","e","s","d","a","y">>, <<"T","h","u","r","s","d","a","y">>>>],
              [raised |-> FALSE, names |-> <<<<"T","u","e","s","d","a","y">>, <<"M","o","n","d","a","y">>, <<"W","e","d","n","e","s","d","a","y">>, <<"T","h","u","r","s","d","a","y">>, <<"F","r","i","d","a","y">>>>],
              [raised |-> FALSE, names |-> <<<<"T","u","e","s","d","a","y">>, <<"M","o","n","d","a","y">>, <<"W","e","d","n","e","s","d","a","y">>, <<"T","h","u","r","s","d","a","y">>, <<"F","r","i","d","a","y">>, <<"S","a","t","u","r","d","a","y">>>>],
              [raised |-> FALSE, names |-> <<<<"T","u","e","s","d","a","y">>, <<"M","o","n","d","a","y">>, <<"W","e","d","n","e","s","d","a","y">>, <<"T","h","u","r","s","d","a","y">>, <<"F","r","i","d","a","y">>, <<"S","a","t","u","r","d","a","y">>, <<"S","u","n","d","a","y">>>>]>>,
   info |-> [is_muscle_specific_template |-> FALSE, muscle_focus |-> <<>>, has_days_info |-> TRUE,
             days_count |-> 1],
   instr |-> [text |-> <<"i"," ","w","a","n","t"," ","t","o"," ","e","d","i","t"," ","m","y"," ","t","e","m","p","l","a","t","e">>,
     bulk |-> [is_bulk_operation |-> FALSE, operation |-> "none", target_muscle |-> <<>>, target_days |-> "all", specific_count |-> 0],
     title |-> [wants_title_change |-> FALSE, target_day |-> <<>>, new_title |-> <<>>],
     target_days |-> -1,
     add_matches |-> <<>>,
     add_alts |-> <<>>,
     week_hits |-> <<>>,
     day_hits |-> <<>>,
     candidate_phrases |-> <<<<"w","a","n","t"," ","e","d","i","t"," ","t","e","m","p","l","a","t","e">>, <<"w","a","n","t"," ","e","d","i","t">>, <<"e","d","i","t"," ","t","e","m","p","l","a","t","e">>, <<"w","a","n","t">>, <<"e","d","i","t">>, <<"t","e","m","p","l","a","t","e">>>>,
     day_muscle |-> <<>>,
     replacement |-> <<>>,
     alt_names |-> <<>>,
     words |-> <<<<"i">>, <<"w","a","n","t">>, <<"t","o">>, <<"e","d","i","t">>, <<"m","y">>, <<"t","e","m","p","l","a","t","e">>>>]]

U_monday_should_have_chest_exercises ==
  [text |-> <<"m","o","n","d","a","y"," ","s","h","o","u","l","d"," ","h","a","v","e"," ","c","h","e","s","t"," ","e","x","e","r","c","i","s","e","s">>,
   create_conf |-> 0, show_conf |-> 0, edit_conf |-> 0,
   days_count |-> 2,
   positive |-> FALSE, negative |-> FALSE,
   names |-> <<[raised |-> TRUE, names |-> <<>>],
              [raised |-> FALSE, names |-> <<<<"M","o","n","d","a","y">>>>],
              [raised |-> FALSE, names |-> <<<<"M","o","n","d","a","y">>, <<"S","a","t","u","r","d","a","y">>>>],
              [raised |-> FALSE, names |-> <<<<"M","o","n","d","a","y">>, <<"S","a","t","u","r","d","a","y">>, <<"T","u","e","s","d","a","y">>>>],
              [raised |-> FALSE, names |-> <<<<"M","o","n","d","a","y">>, <<"S","a","t","u","r","d","a","y">>, <<"T","u","e","s","d","a","y">>, <<"W","e","d","n","e","s","d","a","y">>>>],
              [raised |-> FALSE, names |-> <<<<"M","o","n","d","a","y">>, <<"S","a","t","u","r","d","a","y">>, <<"T","u","e","s","d","a","y">>, <<"W","e","d","n","e","s","d","a","y">>, <<"T","h","u","r","s","d","a","y">>>>],
              [raised |-> FALSE, names |-> <<<<"M","o","n","d","a","y">>, <<"S","a","t","u","r","d","a","y">>, <<"T","u","e","s","d","a","y">>, <<"W","e","d","n","e","s","d","a","y">>, <<"T","h","u","r","s","d","a","y">>, <<"F","r","i","d","a","y">>>>],
              [raised |-> FALSE, names |-> <<<<"M","o","n","d","a","y">>, <<"S","a","t","u","r","d","a","y">>, <<"T","u","e","s","d","a","y">>, <<"W","e","d","n","e","s","d","a","y">>, <<"T","h","u","r","s","d","a","y">>, <<"F","r","i","d","a","y">>, <<"S","u","n","d","a","y">>>>]>>,
   info |-> [is_muscle_specific_template |-> FALSE, muscle_focus |-> <<>>, has_days_info |-> TRUE,
             days_count |-> 2],
   instr |-> [text |-> <<"m","o","n","d","a","y"," ","s","h","o","u","l","d"," ","h","a","v","e"," ","c","h","e","s","t"," ","e","x","e","r","c","i","s","e","s">>,
     bulk |-> [is_bulk_operation |-> FALSE, operation |-> "none", target_muscle |-> <<"c","h","e","s","t">>, target_days |-> "all", specific_count |-> 0],
     title |-> [wants_title_change |-> FALSE, target_day |-> <<>>, new_title |-> <<>>],
     target_days |-> -1,
     add_matches |-> <<>>,
     add_alts |-> <<>>,
     week_hits |-> <<<<"m","o","n","d","a","y">>>>,
     day_hits |-> <<<<"m","o","n","d","a","y">>>>,
     candidate_phrases |-> <<<<"s","h","o","u","l","d"," ","h","a","v","e"," ","c","h","e","s","t">>, <<"s","h","o","u","l","d"," ","h","a","v","e">>, <<"h","a","v","e"," ","c","h","e","s","t">>, <<"s","h","o","u","l","d">>, <<"h","a","v","e">>, <<"c","h","e","s","t">>>>,
     day_muscle |-> <<<<"m","o","n","d","a","y">>, <<"c","h","e","s","t">>>>,
     replacement |-> <<>>,
     alt_names |-> <<>>,
     words |-> <<<<"m","o","n","d","a","y">>, <<"s","h","o","u","l","d">>, <<"h","a","v","e">>, <<"c","h","e","s","t">>, <<"e","x","e","r","c","i","s","e","s">>>>]]

U_add_plank_to_monday ==
  [text |-> <<"a","d","d"," ","p","l","a","n","k"," ","t","o"," ","m","o","n","d","a","y">>,
   create_conf |-> 1500, show_conf |-> 0, edit_conf |-> 500,
   days_count |-> 1,
   positive |-> FALSE, negative |-> FALSE,
   names |-> <<[raised |-> TRUE, names |-> <<>>],
              [raised |-> FALSE, names |-> <<<<"M","o","n","d","a","y">>>>],
              [raised |-> FALSE, names |-> <<<<"M","o","n","d","a","y">>, <<"T","u","e","s","d","a","y">>>>],
              [raised |-> FALSE, names |-> <<<<"M","o","n","d","a","y">>, <<"T","u","e","s","d","a","y">>, <<"W","e","d","n","e","s","d","a","y">>>>],
              [raised |-> FALSE, names |-> <<<<"M","o","n","d","a","y">>, <<"T","u","e","s","d","a","y">>, <<"W","e","d","n","e","s","d","a","y">>, <<"T","h","u","r","s","d","a","y">>>>],
              [raised |-> FALSE, names |-> <<<<"M","o","n","d","a","y">>, <<"T","u","e","s","d","a","y">>, <<"W","e","d","n","e","s","d","a","y">>, <<"T","h","u","r","s","d","a","y">>, <<"F","r","i","d","a","y">>>>],
              [raised |-> FALSE, names |-> <<<<"M","o","n","d","a","y">>, <<"T","u","e","s","d","a","y">>, <<"W","e","d","n","e","s","d","a","y">>, <<"T","h","u","r","s","d","a","y">>, <<"F","r","i","d","a","y">>, <<"S","a","t","u","r","d","a","y">>>>],
              [raised |-> FALSE, names |-> <<<<"M","o","n","d","a","y">>, <<"T","u","e","s","d","a","y">>, <<"W","e","d","n","e","s","d","a","y">>, <<"T","h","u","r","s","d","a","y">>, <<"F","r","i","d","a","y">>, <<"S","a","t","u","r","d","a","y">>, <<"S","u","n","d","a","y">>>>]>>,
   info |-> [is_muscle_specific_template |-> FALSE, muscle_focus |-> <<>>, has_days_info |-> TRUE,
             days_count |-> 1],
   instr |-> [text |-> <<"a","d","d"," ","p","l","a","n","k"," ","t","o"," ","m","o","n","d","a","y">>,
     bulk |-> [is_bulk_operation |-> FALSE, operation |-> "add", target_muscle |-> <<>>, target_days |-> "all", specific_count |-> 0],
     title |-> [wants_title_change |-> FALSE, target_day |-> <<>>, new_title |-> <<>>],
     target_days |-> -1,
     add_matches |-> <<<<<<"p","l","a","n","k">>, <<"m","o","n","d","a","y">>>>, <<<<"p","l","a","n","k"," ","t","o">>, <<"m","o","n","d","a","y">>>>>>,
     add_alts |-> <<<<"P","l","a","n","k"," ","J","a","c","k","s">>>>,
     week_hits |-> <<<<"m","o","n","d","a","y">>>>,
     day_hits |-> <<<<"m","o","n","d","a","y">>>>,
     candidate_phrases |-> <<<<"a","d","d"," ","p","l","a","n","k">>, <<"p","l","a","n","k">>>>,
     day_muscle |-> <<>>,
     replacement |-> <<>>,
     alt_names |-> <<>>,
     words |-> <<<<"a","d","d">>, <<"p","l","a","n","k">>, <<"t","o">>, <<"m","o","n","d","a","y">>>>]]

U_replace_squat_with_lunge ==
  [text |-> <<"r","e","p","l","a","c","e"," ","s","q","u","a","t"," ","w","i","t","h"," ","l","u","n","g","e">>,
   create_conf |-> 0, show_conf |-> 0, edit_conf |-> 857,
   days_count |-> 0,
   positive |-> FALSE, negative |-> FALSE,
   names |-> <<[raised |-> TRUE, names |-> <<>>],
              [raised |-> FALSE, names |-> <<<<"R","e","p","l","a","c","e">>>>],
              [raised |-> FALSE, names |-> <<<<"R","e","p","l","a","c","e">>, <<"S","q","u","a","t">>>>],
              [raised |-> FALSE, names |-> <<<<"R","e","p","l","a","c","e">>, <<"S","q","u","a","t">>, <<"L","u","n","g","e">>>>],
              [raised |-> FALSE, names |-> <<<<"R","e","p","l","a","c","e">>, <<"S","q","u","a","t">>, <<"L","u","n","g","e">>, <<"T","h","u","r","s","d","a","y">>>>],
              [raised |-> FALSE, names |-> <<<<"R","e","p","l","a","c","e">>, <<"S","q","u","a","t">>, <<"L","u","n","g","e">>, <<"T","h","u","r","s","d","a","y">>, <<"F","r","i","d","a","y">>>>],
              [raised |-> FALSE, names |-> <<<<"R","e","p","l","a","c","e">>, <<"S","q","u","a","t">>, <<"L","u","n","g","e">>, <<"T","h","u","r","s","d","a","y">>, <<"F","r","i","d","a","y">>, <<"S","a","t","u","r","d","a","y">>>>],
              [raised |-> FALSE, names |-> <<<<"R","e","p","l","a","c","e">>, <<"S","q","u","a","t">>, <<"L","u","n","g","e">>, <<"T","h","u","r","s","d","a","y">>, <<"F","r","i","d","a","y">>, <<"S","a","t","u","r","d","a","y">>, <<"S","u","n","d","a","y">>>>]>>,
   info |-> [is_muscle_specific_template |-> FALSE, muscle_focus |-> <<>>, has_days_info |-> FALSE,
             days_count |-> 0],
   instr |-> [text |-> <<"r","e","p","l","a","c","e"," ","s","q","u","a","t"," ","w","i","t","h"," ","l","u","n","g","e">>,
     bulk |-> [is_bulk_operation |-> FALSE, operation |-> "replace", target_muscle |-> <<>>, target_days |-> "all", specific_count |-> 0],
     title |-> [wants_title_change |-> FALSE, target_day |-> <<>>, new_title |-> <<>>],
     target_days |-> -1,
     add_matches |-> <<>>,
     add_alts |-> <<<<"D","u","m","b","e","l","l"," ","S","q","u","a","t","s">>>>,
     week_hits |-> <<>>,
     day_hits |-> <<>>,
     candidate_phrases |-> <<<<"r","e","p","l","a","c","e"," ","s","q","u","a","t"," ","w","i","t","h"," ","l","u","n","g","e">>, <<"r","e","p","l","a","c","e"," ","s","q","u","a","t"," ","w","i","t","h">>, <<"s","q","u","a","t"," ","w","i","t","h"," ","l","u","n","g","e">>, <<"r","e","p","l","a","c","e"," ","s","q","u","a","t">>, <<"s","q","u","a","t"," ","w","i","t","h">>, <<"w","i","t","h"," ","l","u","n","g","e">>, <<"r","e","p","l","a","c","e">>, <<"s","q","u","a","t">>, <<"w","i","t","h">>, <<"l","u","n","g","e">>>>,
     day_muscle |-> <<>>,
     replacement |-> <<<<"s","q","u","a","t">>, <<"l","u","n","g","e">>>>,
     alt_names |-> <<>>,
     words |-> <<<<"r","e","p","l","a","c","e">>, <<"s","q","u","a","t">>, <<"w","i","t","h">>, <<"l","u","n","g","e">>>>]]

U_add_chest_exercises_to_all_days ==
  [text |-> <<"a","d","d"," ","c","h","e","s","t"," ","e","x","e","r","c","i","s","e","s"," ","t","o"," ","a","l","l"," ","d","a","y","s">>,
   create_conf |-> 0, show_conf |-> 0, edit_conf |-> 500,
   days_count |-> 7,
   positive |-> FALSE, negative |-> FALSE,
   names |-> <<[raised |-> TRUE, names |-> <<>>],
              [raised |-> FALSE, names |-> <<<<"S","a","t","u","r","d","a","y">>>>],
              [raised |-> FALSE, names |-> <<<<"S","a","t","u","r","d","a","y">>, <<"M","o","n","d","a","y">>>>],
              [raised |-> FALSE, names |-> <<<<"S","a","t","u","r","d","a","y">>, <<"M","o","n","d","a","y">>, <<"T","u","e","s","d","a","y">>>>],
              [raised |-> FALSE, names |-> <<<<"S","a","t","u","r","d","a","y">>, <<"M","o","n","d","a","y">>, <<"T","u","e","s","d","a","y">>, <<"W","e","d","n","e","s","d","a","y">>>>],
              [raised |-> FALSE, names |-> <<<<"S","a","t","u","r","d","a","y">>, <<"M","o","n","d","a","y">>, <<"T","u","e","s","d","a","y">>, <<"W","e","d","n","e","s","d","a","y">>, <<"T","h","u","r","s","d","a","y">>>>],
              [raised |-> FALSE, names |-> <<<<"S","a","t","u","r","d","a","y">>, <<"M","o","n","d","a","y">>, <<"T","u","e","s","d","a","y">>, <<"W","e","d","n","e","s","d","a","y">>, <<"T","h","u","r","s","d","a","y">>, <<"F","r","i","d","a","y">>>>],
              [raised |-> FALSE, names |-> <<<<"S","a","t","u","r","d","a","y">>, <<"M","o","n","d","a","y">>, <<"T","u","e","s","d","a","y">>, <<"W","e","d","n","e","s","d","a","y">>, <<"T","h","u","r","s","d","a","y">>, <<"F","r","i","d","a","y">>, <<"S","u","n","d","a","y">>>>]>>,
   info |-> [is_muscle_specific_template |-> FALSE, muscle_focus |-> <<>>, has_days_info |-> TRUE,
             days_count |-> 7],
   instr |-> [text |-> <<"a","d","d"," ","c","h","e","s","t"," ","e","x","e","r","c","i","s","e","s"," ","t","o"," ","a","l","l"," ","d","a","y","s">>,
     bulk |-> [is_bulk_operation |-> TRUE, operation |-> "add", target_muscle |-> <<"c","h","e","s","t">>, target_days |-> "all", specific_count |-> 0],
     title |-> [wants_title_change |-> FALSE, target_day |-> <<>>, new_title |-> <<>>],
     target_days |-> -1,
     add_matches |-> <<<<<<"c","h","e","s","t"," ","e","x","e","r","c","i","s","e","s">>, <<"t","o">>>>>>,
     add_alts |-> <<>>,
     week_hits |-> <<>>,
     day_hits |-> <<>>,
     candidate_phrases |-> <<<<"a","d","d"," ","c","h","e","s","t"," ","a","l","l"," ","d","a","y","s">>, <<"a","d","d"," ","c","h","e","s","t"," ","a","l","l">>, <<"c","h","e","s","t"," ","a","l","l"," ","d","a","y","s">>, <<"a","d","d"," ","c","h","e","s","t">>, <<"c","h","e","s","t"," ","a","l","l">>, <<"a","l","l"," ","d","a","y","s">>, <<"c","h","e","s","t">>, <<"d","a","y","s">>>>,
     day_muscle |-> <<>>,
     replacement |-> <<>>,
     alt_names |-> <<>>,
     words |-> <<<<"a","d","d">>, <<"c","h","e","s","t">>, <<"e","x","e","r","c","i","s","e","s">>, <<"t","o">>, <<"a","l","l">>, <<"d","a","y","s">>>>]]

U_reduce_to_2_days ==
  [text |-> <<"r","e","d","u","c","e"," ","t","o"," ","2"," ","d","a","y","s">>,
   create_conf |-> 0, show_conf |-> 0, edit_conf |-> 0,
   days_count |-> 2,
   positive |-> FALSE, negative |-> FALSE,
   names |-> <<[raised |-> TRUE, names |-> <<>>],
              [raised |-> FALSE, names |-> <<<<"2"," ","D","a","y">>>>],
              [raised |-> FALSE, names |-> <<<<"R","e","d","u","c","e">>, <<"T","u","e","s","d","a","y">>>>],
              [raised |-> FALSE, names |-> <<<<"R","e","d","u","c","e">>, <<"T","u","e","s","d","a","y">>, <<"W","e","d","n","e","s","d","a","y">>>>],
              [raised |-> FALSE, names |-> <<<<"R","e","d","u","c","e">>, <<"T","u","e","s","d","a","y">>, <<"W","e","d","n","e","s","d","a","y">>, <<"T","h","u","r","s","d","a","y">>>>],
              [raised |-> FALSE, names |-> <<<<"R","e","d","u","c","e">>, <<"T","u","e","s","d","a","y">>, <<"W","e","d","n","e","s","d","a","y">>, <<"T","h","u","r","s","d","a","y">>, <<"F","r","i","d","a","y">>>>],
              [raised |-> FALSE, names |-> <<<<"R","e","d","u","c","e">>, <<"T","u","e","s","d","a","y">>, <<"W","e","d","n","e","s","d","a","y">>, <<"T","h","u","r","s","d","a","y">>, <<"F","r","i","d","a","y">>, <<"S","a","t","u","r","d","a","y">>>>],
              [raised |-> FALSE, names |-> <<<<"R","e","d","u","c","e">>, <<"T","u","e","s","d","a","y">>, <<"W","e","d","n","e","s","d","a","y">>, <<"T","h","u","r","s","d","a","y">>, <<"F","r","i","d","a","y">>, <<"S","a","t","u","r","d","a","y">>, <<"S","u","n","d","a","y">>>>]>>,
   info |-> [is_muscle_specific_template |-> FALSE, muscle_focus |-> <<>>, has_days_info |-> TRUE,
             days_count |-> 2],
   instr |-> [text |-> <<"r","e","d","u","c","e"," ","t","o"," ","2"," ","d","a","y","s">>,
     bulk |-> [is_bulk_operation |-> TRUE, operation |-> "none", target_muscle |-> <<>>, target_days |-> "specific_count", specific_count |-> 2],
     title |-> [wants_title_change |-> FALSE, target_day |-> <<>>, new_title |-> <<>>],
     target_days |-> 2,
     add_matches |-> <<>>,
     add_alts |-> <<>>,
     week_hits |-> <<>>,
     day_hits |-> <<>>,
     candidate_phrases |-> <<<<"r","e","d","u","c","e"," ","d","a","y","s">>, <<"r","e","d","u","c","e">>, <<"d","a","y","s">>>>,
     day_muscle |-> <<>>,
     replacement |-> <<>>,
     alt_names |-> <<>>,
     words |-> <<<<"r","e","d","u","c","e">>, <<"t","o">>, <<"d","a","y","s">>>>]]

U_rename_monday_to_leg_day ==
  [text |-> <<"r","e","n","a","m","e"," ","m","o","n","d","a","y"," ","t","o"," ","l","e","g"," ","d","a","y">>,
   create_conf |-> 0, show_conf |-> 0, edit_conf |-> 0,
   days_count |-> 1,
   positive |-> FALSE, negative |-> FALSE,
   names |-> <<[raised |-> TRUE, names |-> <<>>],
              [raised |-> FALSE, names |-> <<<<"M","o","n","d","a","y">>>>],
              [raised |-> FALSE, names |-> <<<<"M","o","n","d","a","y">>, <<"T","u","e","s","d","a","y">>>>],
              [raised |-> FALSE, names |-> <<<<"M","o","n","d","a","y">>, <<"T","u","e","s","d","a","y">>, <<"W","e","d","n","e","s","d","a","y">>>>],
              [raised |-> FALSE, names |-> <<<<"M","o","n","d","a","y">>, <<"T","u","e","s","d","a","y">>, <<"W","e","d","n","e","s","d","a","y">>, <<"T","h","u","r","s","d","a","y">>>>],
              [raised |-> FALSE, names |-> <<<<"M","o","n","d","a","y">>, <<"T","u","e","s","d","a","y">>, <<"W","e","d","n","e","s","d","a","y">>, <<"T","h","u","r","s","d","a","y">>, <<"F","r","i","d","a","y">>>>],
              [raised |-> FALSE, names |-> <<<<"M","o","n","d","a","y">>, <<"T","u","e","s","d","a","y">>, <<"W","e","d","n","e","s","d","a","y">>, <<"T","h","u","r","s","d","a","y">>, <<"F","r","i","d","a","y">>, <<"S","a","t","u","r","d","a","y">>>>],
              [raised |-> FALSE, names |-> <<<<"M","o","n","d","a","y">>, <<"T","u","e","s","d","a","y">>, <<"W","e","d","n","e","s","d","a","y">>, <<"T","h","u","r","s","d","a","y">>, <<"F","r","i","d","a","y">>, <<"S","a","t","u","r","d","a","y">>, <<"S","u","n","d","a","y">>>>]>>,
   info |-> [is_muscle_specific_template |-> FALSE, muscle_focus |-> <<>>, has_days_info |-> TRUE,
             days_count |-> 1],
   instr |-> [text |-> <<"r","e","n","a","m","e"," ","m","o","n","d","a","y"," ","t","o"," ","l","e","g"," ","d","a","y">>,
     bulk |-> [is_bulk_operation |-> FALSE, operation |-> "none", target_muscle |-> <<>>, target_days |-> "all", specific_count |-> 0],
     title |-> [wants_title_change |-> TRUE, target_day |-> <<"m","o","n","d","a","y">>, new_title |-> <<"L","e","g"," ","D","a","y">>],
     target_days |-> -1,
     add_matches |-> <<>>,
     add_alts |-> <<>>,
     week_hits |-> <<<<"m","o","n","d","a","y">>>>,
     day_hits |-> <<<<"m","o","n","d","a","y">>>>,
     candidate_phrases |-> <<<<"r","e","n","a","m","e"," ","l","e","g">>, <<"r","e","n","a","m","e">>>>,
     day_muscle |-> <<>>,
     replacement |-> <<>>,
     alt_names |-> <<>>,
     words |-> <<<<"r","e","n","a","m","e">>, <<"m","o","n","d","a","y">>, <<"t","o">>, <<"l","e","g">>, <<"d","a","y">>>>]]

U_save_my_template ==
  [text |-> <<"s","a","v","e"," ","m","y"," ","t","e","m","p","l","a","t","e">>,
   create_conf |-> 1500, show_conf |-> 2643, edit_conf |-> 0,
   days_count |-> 2,
   positive |-> FALSE, negative |-> FALSE,
   names |-> <<[raised |-> TRUE, names |-> <<>>],
              [raised |-> FALSE, names |-> <<<<"T","u","e","s","d","a","y">>>>],
              [raised |-> FALSE, names |-> <<<<"T","u","e","s","d","a","y">>, <<"S","a","t","u","r","d","a","y">>>>],
              [raised |-> FALSE, names |-> <<<<"T","u","e","s","d","a","y">>, <<"S","a","t","u","r","d","a","y">>, <<"M","o","n","d","a","y">>>>],
              [raised |-> FALSE, names |-> <<<<"T","u","e","s","d","a","y">>, <<"S","a","t","u","r","d","a","y">>, <<"M","o","n","d","a","y">>, <<"W","e","d","n","e","s","d","a","y">>>>],
              [raised |-> FALSE, names |-> <<<<"T","u","e","s","d","a","y">>, <<"S","a","t","u","r","d","a","y">>, <<"M","o","n","d","a","y">>, <<"W","e","d","n","e","s","d","a","y">>, <<"T","h","u","r","s","d","a","y">>>>],
              [raised |-> FALSE, names |-> <<<<"T","u","e","s","d","a","y">>, <<"S","a","t","u","r","d","a","y">>, <<"M","o","n","d","a","y">>, <<"W","e","d","n","e","s","d","a","y">>, <<"T","h","u","r","s","d","a","y">>, <<"F","r","i","d","a","y">>>>],
              [raised |-> FALSE, names |-> <<<<"T","u","e","s","d","a","y">>, <<"S","a","t","u","r","d","a","y">>, <<"M","o","n","d","a","y">>, <<"W","e","d","n","e","s","d","a","y">>, <<"T","h","u","r","s","d","a","y">>, <<"F","r","i","d","a","y">>, <<"S","u","n","d","a","y">>>>]>>,
   info |-> [is_muscle_specific_template |-> FALSE, muscle_focus |-> <<>>, has_days_info |-> TRUE,
             days_count |-> 2],
   instr |-> [text |-> <<"s","a","v","e"," ","m","y"," ","t","e","m","p","l","a","t","e">>,
     bulk |-> [is_bulk_operation |-> FALSE, operation |-> "none", target_muscle |-> <<>>, target_days |-> "all", specific_count |-> 0],
     title |-> [wants_title_change |-> FALSE, target_day |-> <<>>, new_title |-> <<>>],
     target_days |-> -1,
     add_matches |-> <<>>,
     add_alts |-> <<>>,
     week_hits |-> <<>>,
     day_hits |-> <<>>,
     candidate_phrases |-> <<<<"s","a","v","e"," ","t","e","m","p","l","a","t","e">>, <<"s","a","v","e">>, <<"t","e","m","p","l","a","t","e">>>>,
     day_muscle |-> <<>>,
     replacement |-> <<>>,
     alt_names |-> <<>>,
     words |-> <<<<"s","a","v","e">>, <<"m","y">>, <<"t","e","m","p","l","a","t","e">>>>]]

U_remove_squats_from_tuesday ==
  [text |-> <<"r","e","m","o","v","e"," ","s","q","u","a","t","s"," ","f","r","o","m"," ","t","u","e","s","d","a","y">>,
   create_conf |-> 0, show_conf |-> 0, edit_conf |-> 1857,
   days_count |-> 2,
   positive |-> FALSE, negative |-> FALSE,
   names |-> <<[raised |-> TRUE, names |-> <<>>],
              [raised |-> FALSE, names |-> <<<<"T","u","e","s","d","a","y">>>>],
              [raised |-> FALSE, names |-> <<<<"T","u","e","s","d","a","y">>, <<"F","r","i","d","a","y">>>>],
              [raised |-> FALSE, names |-> <<<<"T","u","e","s","d","a","y">>, <<"F","r","i","d","a","y">>, <<"M","o","n","d","a","y">>>>],
              [raised |-> FALSE, names |-> <<<<"T","u","e","s","d","a","y">>, <<"F","r","i","d","a","y">>, <<"M","o","n","d","a","y">>, <<"W","e","d","n","e","s","d","a","y">>>>],
              [raised |-> FALSE, names |-> <<<<"T","u","e","s","d","a","y">>, <<"F","r","i","d","a","y">>, <<"M","o","n","d","a","y">>, <<"W","e","d","n","e","s","d","a","y">>, <<"T","h","u","r","s","d","a","y">>>>],
              [raised |-> FALSE, names |-> <<<<"T","u","e","s","d","a","y">>, <<"F","r","i","d","a","y">>, <<"M","o","n","d","a","y">>, <<"W","e","d","n","e","s","d","a","y">>, <<"T","h","u","r","s","d","a","y">>, <<"S","a","t","u","r","d","a","y">>>>],
              [raised |-> FALSE, names |-> <<<<"T","u","e","s","d","a","y">>, <<"F","r","i","d","a","y">>, <<"M","o","n","d","a","y">>, <<"W","e","d","n","e","s","d","a","y">>, <<"T","h","u","r","s","d","a","y">>, <<"S","a","t","u","r","d","a","y">>, <<"S","u","n","d","a","y">>>>]>>,
   info |-> [is_muscle_specific_template |-> FALSE, muscle_focus |-> <<>>, has_days_info |-> TRUE, days_count |-> 2],
   instr |-> [text |-> <<"r","e","m","o","v","e"," ","s","q","u","a","t","s"," ","f","r","o","m"," ","t","u","e","s","d","a","y">>,
     bulk |-> [is_bulk_operation |-> FALSE, operation |-> "none", target_muscle |-> <<>>, target_days |-> "all", specific_count |-> 0],
     title |-> [wants_title_change |-> FALSE, target_day |-> <<>>, new_title |-> <<>>],
     target_days |-> -1,
     add_matches |-> <<>>,
     add_alts |-> <<<<"D","u","m","b","e","l","l"," ","S","q","u","a","t","s">>>>,
     week_hits |-> <<<<"t","u","e","s","d","a","y">>>>,
     day_hits |-> <<<<"t","u","e","s","d","a","y">>>>,
     candidate_phrases |-> <<<<"s","q","u","a","t","s">>>>,
     day_muscle |-> <<>>,
     replacement |-> <<>>,
     alt_names |-> <<>>,
     words |-> <<<<"r","e","m","o","v","e">>, <<"s","q","u","a","t","s">>, <<"f","r","o","m">>, <<"t","u","e","s","d","a","y">>>>]]

U_remove_hip_thrust_from_monday ==
  [text |-> <<"r","e","m","o","v","e"," ","h","i","p"," ","t","h","r","u","s","t"," ","f","r","o","m"," ","m","o","n","d","a","y">>,
   create_conf |-> 0, show_conf |-> 0, edit_conf |-> 1857,
   days_count |-> 4,
   positive |-> FALSE, negative |-> FALSE,
   names |-> <<[raised |-> TRUE, names |-> <<>>],
              [raised |-> FALSE, names |-> <<<<"M","o","n","d","a","y">>>>],
              [raised |-> FALSE, names |-> <<<<"M","o","n","d","a","y">>, <<"T","h","u","r","s","d","a","y">>>>],
              [raised |-> FALSE, names |-> <<<<"M","o","n","d","a","y">>, <<"T","h","u","r","s","d","a","y">>, <<"F","r","i","d","a","y">>>>],
              [raised |-> FALSE, names |-> <<<<"M","o","n","d","a","y">>, <<"T","h","u","r","s","d","a","y">>, <<"F","r","i","d","a","y">>, <<"S","a","t","u","r","d","a","y">>>>],
              [raised |-> FALSE, names |-> <<<<"M","o","n","d","a","y">>, <<"T","h","u","r","s","d","a","y">>, <<"F","r","i","d","a","y">>, <<"S","a","t","u","r","d","a","y">>, <<"T","u","e","s","d","a","y">>>>],
              [raised |-> FALSE, names |-> <<<<"M","o","n","d","a","y">>, <<"T","h","u","r","s","d","a","y">>, <<"F","r","i","d","a","y">>, <<"S","a","t","u","r","d","a","y">>, <<"T","u","e","s","d","a","y">>, <<"W","e","d","n","e","s","d","a","y">>>>],
              [raised |-> FALSE, names |-> <<<<"M","o","n","d","a","y">>, <<"T","h","u","r","s","d","a","y">>, <<"F","r","i","d","a","y">>, <<"S","a","t","u","r","d","a","y">>, <<"T","u","e","s","d","a","y">>, <<"W","e","d","n","e","s","d","a","y">>, <<"S","u","n","d","a","y">>>>]>>,
   info |-> [is_muscle_specific_template |-> FALSE, muscle_focus |-> <<>>, has_days_info |-> TRUE, days_count |-> 4],
   instr |-> [text |-> <<"r","e","m","o","v","e"," ","h","i","p"," ","t","h","r","u","s","t"," ","f","r","o","m"," ","m","o","n","d","a","y">>,
     bulk |-> [is_bulk_operation |-> FALSE, operation |-> "none", target_muscle |-> <<>>, target_days |-> "all", specific_count |-> 0],
     title |-> [wants_title_change |-> FALSE, target_day |-> <<>>, new_title |-> <<>>],
     target_days |-> -1,
     add_matches |-> <<>>,
     add_alts |-> <<>>,
     week_hits |-> <<<<"m","o","n","d","a","y">>>>,
     day_hits |-> <<<<"m","o","n","d","a","y">>>>,
     candidate_phrases |-> <<<<"h","i","p"," ","t","h","r","u","s","t">>, <<"t","h","r","u","s","t">>>>,
     day_muscle |-> <<>>,
     replacement |-> <<>>,
     alt_names |-> <<>>,
     words |-> <<<<"r","e","m","o","v","e">>, <<"h","i","p">>, <<"t","h","r","u","s","t">>, <<"f","r","o","m">>, <<"m","o","n","d","a","y">>>>]]

U_remove_lunge_from_monday ==
  [text |-> <<"r","e","m","o","v","e"," ","l","u","n","g","e"," ","f","r","o","m"," ","m","o","n","d","a","y">>,
   create_conf |-> 0, show_conf |-> 0, edit_conf |-> 1857,
   days_count |-> 2,
   positive |-> FALSE, negative |-> FALSE,
   names |-> <<[raised |-> TRUE, names |-> <<>>],
              [raised |-> FALSE, names |-> <<<<"M","o","n","d","a","y">>>>],
              [raised |-> FALSE, names |-> <<<<"M","o","n","d","a","y">>, <<"F","r","i","d","a","y">>>>],
              [raised |-> FALSE, names |-> <<<<"M","o","n","d","a","y">>, <<"F","r","i","d","a","y">>, <<"T","u","e","s","d","a","y">>>>],
              [raised |-> FALSE, names |-> <<<<"M","o","n","d","a","y">>, <<"F","r","i","d","a","y">>, <<"T","u","e","s","d","a","y">>, <<"W","e","d","n","e","s","d","a","y">>>>],
              [raised |-> FALSE, names |-> <<<<"M","o","n","d","a","y">>, <<"F","r","i","d","a","y">>, <<"T","u","e","s","d","a","y">>, <<"W","e","d","n","e","s","d","a","y">>, <<"T","h","u","r","s","d","a","y">>>>],
              [raised |-> FALSE, names |-> <<<<"M","o","n","d","a","y">>, <<"F","r","i","d","a","y">>, <<"T","u","e","s","d","a","y">>, <<"W","e","d","n","e","s","d","a","y">>, <<"T","h","u","r","s","d","a","y">>, <<"S","a","t","u","r","d","a","y">>>>],
              [raised |-> FALSE, names |-> <<<<"M","o","n","d","a","y">>, <<"F","r","i","d","a","y">>, <<"T","u","e","s","d","a","y">>, <<"W","e","d","n","e","s","d","a","y">>, <<"T","h","u","r","s","d","a","y">>, <<"S","a","t","u","r","d","a","y">>, <<"S","u","n","d","a","y">>>>]>>,
   info |-> [is_muscle_specific_template |-> FALSE, muscle_focus |-> <<>>, has_days_info |-> TRUE, days_count |-> 2],
   instr |-> [text |-> <<"r","e","m","o","v","e"," ","l","u","n","g","e"," ","f","r","o","m"," ","m","o","n","d","a","y">>,
     bulk |-> [is_bulk_operation |-> FALSE, operation |-> "none", target_muscle |-> <<>>, target_days |-> "all", specific_count |-> 0],
     title |-> [wants_title_change |-> FALSE, target_day |-> <<>>, new_title |-> <<>>],
     target_days |-> -1,
     add_matches |-> <<>>,
     add_alts |-> <<>>,
     week_hits |-> <<<<"m","o","n","d","a","y">>>>,
     day_hits |-> <<<<"m","o","n","d","a","y">>>>,
     candidate_phrases |-> <<<<"l","u","n","g","e">>>>,
     day_muscle |-> <<>>,
     replacement |-> <<>>,
     alt_names |-> <<>>,
     words |-> <<<<"r","e","m","o","v","e">>, <<"l","u","n","g","e">>, <<"f","r","o","m">>, <<"m","o","n","d","a","y">>>>]]

U_remove_leg_press_from_monday ==
  [text |-> <<"r","e","m","o","v","e"," ","l","e","g"," ","p","r","e","s","s"," ","f","r","o","m"," ","m","o","n","d","a","y">>,
   create_conf |-> 0, show_conf |-> 0, edit_conf |-> 1857,
   days_count |-> 2,
   positive |-> FALSE, negative |-> FALSE,
   names |-> <<[raised |-> TRUE, names |-> <<>>],
              [raised |-> FALSE, names |-> <<<<"M","o","n","d","a","y">>>>],
              [raised |-> FALSE, names |-> <<<<"M","o","n","d","a","y">>, <<"F","r","i","d","a","y">>>>],
              [raised |-> FALSE, names |-> <<<<"M","o","n","d","a","y">>, <<"F","r","i","d","a","y">>, <<"T","u","e","s","d","a","y">>>>],
              [raised |-> FALSE, names |-> <<<<"M","o","n","d","a","y">>, <<"F","r","i","d","a","y">>, <<"T","u","e","s","d","a","y">>, <<"W","e","d","n","e","s","d","a","y">>>>],
              [raised |-> FALSE, names |-> <<<<"M","o","n","d","a","y">>, <<"F","r","i","d","a","y">>, <<"T","u","e","s","d","a","y">>, <<"W","e","d","n","e","s","d","a","y">>, <<"T","h","u","r","s","d","a","y">>>>],
              [raised |-> FALSE, names |-> <<<<"M","o","n","d","a","y">>, <<"F","r","i","d","a","y">>, <<"T","u","e","s","d","a","y">>, <<"W","e","d","n","e","s","d","a","y">>, <<"T","h","u","r","s","d","a","y">>, <<"S","a","t","u","r","d","a","y">>>>],
              [raised |-> FALSE, names |-> <<<<"M","o","n","d","a","y">>, <<"F","r","i","d","a","y">>, <<"T","u","e","s","d","a","y">>, <<"W","e","d","n","e","s","d","a","y">>, <<"T","h","u","r","s","d","a","y">>, <<"S","a","t","u","r","d","a","y">>, <<"S","u","n","d","a","y">>>>]>>,
   info |-> [is_muscle_specific_template |-> FALSE, muscle_focus |-> <<>>, has_days_info |-> TRUE, days_count |-> 2],
   instr |-> [text |-> <<"r","e","m","o","v","e"," ","l","e","g"," ","p","r","e","s","s"," ","f","r","o","m"," ","m","o","n","d","a","y">>,
     bulk |-> [is_bulk_operation |-> FALSE, operation |-> "none", target_muscle |-> <<>>, target_days |-> "all", specific_count |-> 0],
     title |-> [wants_title_change |-> FALSE, target_day |-> <<>>, new_title |-> <<>>],
     target_days |-> -1,
     add_matches |-> <<>>,
     add_alts |-> <<>>,
     week_hits |-> <<<<"m","o","n","d","a","y">>>>,
     day_hits |-> <<<<"m","o","n","d","a","y">>>>,
     candidate_phrases |-> <<<<"l","e","g"," ","p","r","e","s","s">>, <<"p","r","e","s","s">>>>,
     day_muscle |-> <<>>,
     replacement |-> <<>>,
     alt_names |-> <<>>,
     words |-> <<<<"r","e","m","o","v","e">>, <<"l","e","g">>, <<"p","r","e","s","s">>, <<"f","r","o","m">>, <<"m","o","n","d","a","y">>>>]]

U_add_bench_press_to_monday ==
  [text |-> <<"a","d","d"," ","b","e","n","c","h"," ","p","r","e","s","s"," ","t","o"," ","m","o","n","d","a","y">>,
   create_conf |-> 0, show_conf |-> 0, edit_conf |-> 500,
   days_count |-> 1,
   positive |-> FALSE, negative |-> FALSE,
   names |-> <<[raised |-> TRUE, names |-> <<>>],
              [raised |-> FALSE, names |-> <<<<"M","o","n","d","a","y">>>>],
              [raised |-> FALSE, names |-> <<<<"M","o","n","d","a","y">>, <<"T","u","e","s","d","a","y">>>>],
              [raised |-> FALSE, names |-> <<<<"M","o","n","d","a","y">>, <<"T","u","e","s","d","a","y">>, <<"W","e","d","n","e","s","d","a","y">>>>],
              [raised |-> FALSE, names |-> <<<<"M","o","n","d","a","y">>, <<"T","u","e","s","d","a","y">>, <<"W","e","d","n","e","s","d","a","y">>, <<"T","h","u","r","s","d","a","y">>>>],
              [raised |-> FALSE, names |-> <<<<"M","o","n","d","a","y">>, <<"T","u","e","s","d","a","y">>, <<"W","e","d","n","e","s","d","a","y">>, <<"T","h","u","r","s","d","a","y">>, <<"F","r","i","d","a","y">>>>],
              [raised |-> FALSE, names |-> <<<<"M","o","n","d","a","y">>, <<"T","u","e","s","d","a","y">>, <<"W","e","d","n","e","s","d","a","y">>, <<"T","h","u","r","s","d","a","y">>, <<"F","r","i","d","a","y">>, <<"S","a","t","u","r","d","a","y">>>>],
              [raised |-> FALSE, names |-> <<<<"M","o","n","d","a","y">>, <<"T","u","e","s","d","a","y">>, <<"W","e","d","n","e","s","d","a","y">>, <<"T","h","u","r","s","d","a","y">>, <<"F","r","i","d","a","y">>, <<"S","a","t","u","r","d","a","y">>, <<"S","u","n","d","a","y">>>>]>>,
   info |-> [is_muscle_specific_template |-> FALSE, muscle_focus |-> <<>>, has_days_info |-> TRUE, days_count |-> 1],
   instr |-> [text |-> <<"a","d","d"," ","b","e","n","c","h"," ","p","r","e","s","s"," ","t","o"," ","m","o","n","d","a","y">>,
     bulk |-> [is_bulk_operation |-> FALSE, operation |-> "add", target_muscle |-> <<>>, target_days |-> "all", specific_count |-> 0],
     title |-> [wants_title_change |-> FALSE, target_day |-> <<>>, new_title |-> <<>>],
     target_days |-> -1,
     add_matches |-> <<<<<<"b","e","n","c","h"," ","p","r","e","s","s">>, <<"m","o","n","d","a","y">>>>, <<<<"b","e","n","c","h"," ","p","r","e","s","s">>, <<"t","o">>>>>>,
     add_alts |-> <<>>,
     week_hits |-> <<<<"m","o","n","d","a","y">>>>,
     day_hits |-> <<<<"m","o","n","d","a","y">>>>,
     candidate_phrases |-> <<<<"a","d","d"," ","b","e","n","c","h"," ","p","r","e","s","s">>, <<"a","d","d"," ","b","e","n","c","h">>, <<"b","e","n","c","h"," ","p","r","e","s","s">>, <<"b","e","n","c","h">>, <<"p","r","e","s","s">>>>,
     day_muscle |-> <<>>,
     replacement |-> <<>>,
     alt_names |-> <<>>,
     words |-> <<<<"a","d","d">>, <<"b","e","n","c","h">>, <<"p","r","e","s","s">>, <<"t","o">>, <<"m","o","n","d","a","y">>>>]]

U_add_zumba_to_monday ==
  [text |-> <<"a","d","d"," ","z","u","m","b","a"," ","t","o"," ","m","o","n","d","a","y">>,
   create_conf |-> 0, show_conf |-> 0, edit_conf |-> 500,
   days_count |-> 1,
   positive |-> FALSE, negative |-> FALSE,
   names |-> <<[raised |-> TRUE, names |-> <<>>],
              [raised |-> FALSE, names |-> <<<<"M","o","n","d","a","y">>>>],
              [raised |-> FALSE, names |-> <<<<"M","o","n","d","a","y">>, <<"T","u","e","s","d","a","y">>>>],
              [raised |-> FALSE, names |-> <<<<"M","o","n","d","a","y">>, <<"T","u","e","s","d","a","y">>, <<"W","e","d","n","e","s","d","a","y">>>>],
              [raised |-> FALSE, names |-> <<<<"M","o","n","d","a","y">>, <<"T","u","e","s","d","a","y">>, <<"W","e","d","n","e","s","d","a","y">>, <<"T","h","u","r","s","d","a","y">>>>],
              [raised |-> FALSE, names |-> <<<<"M","o","n","d","a","y">>, <<"T","u","e","s","d","a","y">>, <<"W","e","d","n","e","s","d","a","y">>, <<"T","h","u","r","s","d","a","y">>, <<"F","r","i","d","a","y">>>>],
              [raised |-> FALSE, names |-> <<<<"M","o","n","d","a","y">>, <<"T","u","e","s","d","a","y">>, <<"W","e","d","n","e","s","d","a","y">>, <<"T","h","u","r","s","d","a","y">>, <<"F","r","i","d","a","y">>, <<"S","a","t","u","r","d","a","y">>>>],
              [raised |-> FALSE, names |-> <<<<"M","o","n","d","a","y">>, <<"T","u","e","s","d","a","y">>, <<"W","e","d","n","e","s","d","a","y">>, <<"T","h","u","r","s","d","a","y">>, <<"F","r","i","d","a","y">>, <<"S","a","t","u","r","d","a","y">>, <<"S","u","n","d","a","y">>>>]>>,
   info |-> [is_muscle_specific_template |-> FALSE, muscle_focus |-> <<>>, has_days_info |-> TRUE, days_count |-> 1],
   instr |-> [text |-> <<"a","d","d"," ","z","u","m","b","a"," ","t","o"," ","m","o","n","d","a","y">>,
     bulk |-> [is_bulk_operation |-> FALSE, operation |-> "add", target_muscle |-> <<>>, target_days |-> "all", specific_count |-> 0],
     title |-> [wants_title_change |-> FALSE, target_day |-> <<>>, new_title |-> <<>>],
     target_days |-> -1,
     add_matches |-> <<<<<<"z","u","m","b","a">>, <<"m","o","n","d","a","y">>>>, <<<<"z","u","m","b","a"," ","t","o">>, <<"m","o","n","d","a","y">>>>>>,
     add_alts |-> <<>>,
     week_hits |-> <<<<"m","o","n","d","a","y">>>>,
     day_hits |-> <<<<"m","o","n","d","a","y">>>>,
     candidate_phrases |-> <<<<"a","d","d"," ","z","u","m","b","a">>, <<"z","u","m","b","a">>>>,
     day_muscle |-> <<>>,
     replacement |-> <<>>,
     alt_names |-> <<>>,
     words |-> <<<<"a","d","d">>, <<"z","u","m","b","a">>, <<"t","o">>, <<"m","o","n","d","a","y">>>>]]

U_replace_squat_with_zumba ==
  [text |-> <<"r","e","p","l","a","c","e"," ","s","q","u","a","t"," ","w","i","t","h"," ","z","u","m","b","a">>,
   create_conf |-> 0, show_conf |-> 0, edit_conf |-> 857,
   days_count |-> 0,
   positive |-> FALSE, negative |-> FALSE,
   names |-> <<[raised |-> TRUE, names |-> <<>>],
              [raised |-> FALSE, names |-> <<<<"R","e","p","l","a","c","e">>>>],
              [raised |-> FALSE, names |-> <<<<"R","e","p","l","a","c","e">>, <<"S","q","u","a","t">>>>],
              [raised |-> FALSE, names |-> <<<<"R","e","p","l","a","c","e">>, <<"S","q","u","a","t">>, <<"Z","u","m","b","a">>>>],
              [raised |-> FALSE, names |-> <<<<"R","e","p","l","a","c","e">>, <<"S","q","u","a","t">>, <<"Z","u","m","b","a">>, <<"T","h","u","r","s","d","a","y">>>>],
              [raised |-> FALSE, names |-> <<<<"R","e","p","l","a","c","e">>, <<"S","q","u","a","t">>, <<"Z","u","m","b","a">>, <<"T","h","u","r","s","d","a","y">>, <<"F","r","i","d","a","y">>>>],
              [raised |-> FALSE, names |-> <<<<"R","e","p","l","a","c","e">>, <<"S","q","u","a","t">>, <<"Z","u","m","b","a">>, <<"T","h","u","r","s","d","a","y">>, <<"F","r","i","d","a","y">>, <<"S","a","t","u","r","d","a","y">>>>],
              [raised |-> FALSE, names |-> <<<<"R","e","p","l","a","c","e">>, <<"S","q","u","a","t">>, <<"Z","u","m","b","a">>, <<"T","h","u","r","s","d","a","y">>, <<"F","r","i","d","a","y">>, <<"S","a","t","u","r","d","a","y">>, <<"S","u","n","d","a","y">>>>]>>,
   info |-> [is_muscle_specific_template |-> FALSE, muscle_focus |-> <<>>, has_days_info |-> FALSE, days_count |-> 0],
   instr |-> [text |-> <<"r","e","p","l","a","c","e"," ","s","q","u","a","t"," ","w","i","t","h"," ","z","u","m","b","a">>,
     bulk |-> [is_bulk_operation |-> FALSE, operation |-> "replace", target_muscle |-> <<>>, target_days |-> "all", specific_count |-> 0],
     title |-> [wants_title_change |-> FALSE, target_day |-> <<>>, new_title |-> <<>>],
     target_days |-> -1,
     add_matches |-> <<>>,
     add_alts |-> <<<<"D","u","m","b","e","l","l"," ","S","q","u","a","t","s">>>>,
     week_hits |-> <<>>,
     day_hits |-> <<>>,
     candidate_phrases |-> <<<<"r","e","p","l","a","c","e"," ","s","q","u","a","t"," ","w","i","t","h"," ","z","u","m","b","a">>, <<"r","e","p","l","a","c","e"," ","s","q","u","a","t"," ","w","i","t","h">>, <<"s","q","u","a","t"," ","w","i","t","h"," ","z","u","m","b","a">>, <<"r","e","p","l","a","c","e"," ","s","q","u","a","t">>, <<"s","q","u","a","t"," ","w","i","t","h">>, <<"w","i","t","h"," ","z","u","m","b","a">>, <<"r","e","p","l","a","c","e">>, <<"s","q","u","a","t">>, <<"w","i","t","h">>, <<"z","u","m","b","a">>>>,
     day_muscle |-> <<>>,
     replacement |-> <<<<"s","q","u","a","t">>, <<"z","u","m","b","a">>>>,
     alt_names |-> <<>>,
     words |-> <<<<"r","e","p","l","a","c","e">>, <<"s","q","u","a","t">>, <<"w","i","t","h">>, <<"z","u","m","b","a">>>>]]

U_rename_day_2_to_push_day ==
  [text |-> <<"r","e","n","a","m","e"," ","d","a","y"," ","2"," ","t","o"," ","p","u","s","h"," ","d","a","y">>,
   create_conf |-> 0, show_conf |-> 0, edit_conf |-> 0,
   days_count |-> 0,
   positive |-> FALSE, negative |-> FALSE,
   names |-> <<[raised |-> TRUE, names |-> <<>>],
              [raised |-> FALSE, names |-> <<<<"P","u","s","h">>>>],
              [raised |-> FALSE, names |-> <<<<"R","e","n","a","m","e"," ","D","a","y">>, <<"P","u","s","h"," ","D","a","y">>>>],
              [raised |-> FALSE, names |-> <<<<"R","e","n","a","m","e">>, <<"P","u","s","h">>, <<"W","e","d","n","e","s","d","a","y">>>>],
              [raised |-> FALSE, names |-> <<<<"R","e","n","a","m","e">>, <<"P","u","s","h">>, <<"W","e","d","n","e","s","d","a","y">>, <<"T","h","u","r","s","d","a","y">>>>],
              [raised |-> FALSE, names |-> <<<<"R","e","n","a","m","e">>, <<"P","u","s","h">>, <<"W","e","d","n","e","s","d","a","y">>, <<"T","h","u","r","s","d","a","y">>, <<"F","r","i","d","a","y">>>>],
              [raised |-> FALSE, names |-> <<<<"R","e","n","a","m","e">>, <<"P","u","s","h">>, <<"W","e","d","n","e","s","d","a","y">>, <<"T","h","u","r","s","d","a","y">>, <<"F","r","i","d","a","y">>, <<"S","a","t","u","r","d","a","y">>>>],
              [raised |-> FALSE, names |-> <<<<"R","e","n","a","m","e">>, <<"P","u","s","h">>, <<"W","e","d","n","e","s","d","a","y">>, <<"T","h","u","r","s","d","a","y">>, <<"F","r","i","d","a","y">>, <<"S","a","t","u","r","d","a","y">>, <<"S","u","n","d","a","y">>>>]>>,
   info |-> [is_muscle_specific_template |-> FALSE, muscle_focus |-> <<>>, has_days_info |-> FALSE, days_count |-> 0],
   instr |-> [text |-> <<"r","e","n","a","m","e"," ","d","a","y"," ","2"," ","t","o"," ","p","u","s","h"," ","d","a","y">>,
     bulk |-> [is_bulk_operation |-> FALSE, operation |-> "none", target_muscle |-> <<>>, target_days |-> "all", specific_count |-> 0],
     title |-> [wants_title_change |-> TRUE, target_day |-> <<"2">>, new_title |-> <<"P","u","s","h"," ","D","a","y">>],
     target_days |-> -1,
     add_matches |-> <<>>,
     add_alts |-> <<>>,
     week_hits |-> <<>>,
     day_hits |-> <<>>,
     candidate_phrases |-> <<<<"r","e","n","a","m","e"," ","p","u","s","h">>, <<"r","e","n","a","m","e">>, <<"p","u","s","h">>>>,
     day_muscle |-> <<>>,
     replacement |-> <<>>,
     alt_names |-> <<>>,
     words |-> <<<<"r","e","n","a","m","e">>, <<"d","a","y">>, <<"t","o">>, <<"p","u","s","h">>, <<"d","a","y">>>>]]

U_change_all_days_to_leg_exercises ==
  [text |-> <<"c","h","a","n","g","e"," ","a","l","l"," ","d","a","y","s"," ","t","o"," ","l","e","g"," ","e","x","e","r","c","i","s","e","s">>,
   create_conf |-> 0, show_conf |-> 0, edit_conf |-> 1357,
   days_count |-> 7,
   positive |-> FALSE, negative |-> FALSE,
   names |-> <<[raised |-> TRUE, names |-> <<>>],
              [raised |-> FALSE, names |-> <<<<"A","l","l"," ","D","a","y">>>>],
              [raised |-> FALSE, names |-> <<<<"C","h","a","n","g","e">>, <<"A","l","l">>>>],
              [raised |-> FALSE, names |-> <<<<"C","h","a","n","g","e">>, <<"A","l","l">>, <<"L","e","g">>>>],
              [raised |-> FALSE, names |-> <<<<"C","h","a","n","g","e">>, <<"A","l","l">>, <<"L","e","g">>, <<"E","x","e","r","c","i","s","e","s">>>>],
              [raised |-> FALSE, names |-> <<<<"C","h","a","n","g","e">>, <<"A","l","l">>, <<"L","e","g">>, <<"E","x","e","r","c","i","s","e","s">>, <<"F","r","i","d","a","y">>>>],
              [raised |-> FALSE, names |-> <<<<"C","h","a","n","g","e">>, <<"A","l","l">>, <<"L","e","g">>, <<"E","x","e","r","c","i","s","e","s">>, <<"F","r","i","d","a","y">>, <<"S","a","t","u","r","d","a","y">>>>],
              [raised |-> FALSE, names |-> <<<<"C","h","a","n","g","e">>, <<"A","l","l">>, <<"L","e","g">>, <<"E","x","e","r","c","i","s","e","s">>, <<"F","r","i","d","a","y">>, <<"S","a","t","u","r","d","a","y">>, <<"S","u","n","d","a","y">>>>]>>,
   info |-> [is_muscle_specific_template |-> FALSE, muscle_focus |-> <<>>, has_days_info |-> TRUE, days_count |-> 7],
   instr |-> [text |-> <<"c","h","a","n","g","e"," ","a","l","l"," ","d","a","y","s"," ","t","o"," ","l","e","g"," ","e","x","e","r","c","i","s","e","s">>,
     bulk |-> [is_bulk_operation |-> TRUE, operation |-> "replace", target_muscle |-> <<"l","e","g","s">>, target_days |-> "all", specific_count |-> 0],
     title |-> [wants_title_change |-> FALSE, target_day |-> <<>>, new_title |-> <<>>],
     target_days |-> -1,
     add_matches |-> <<>>,
     add_alts |-> <<>>,
     week_hits |-> <<>>,
     day_hits |-> <<>>,
     candidate_phrases |-> <<<<"a","l","l"," ","d","a","y","s"," ","l","e","g">>, <<"a","l","l"," ","d","a","y","s">>, <<"d","a","y","s"," ","l","e","g">>, <<"d","a","y","s">>>>,
     day_muscle |-> <<>>,
     replacement |-> <<<<"a","l","l"," ","d","a","y","s">>, <<"l","e","g"," ","e","x","e","r","c","i","s","e","s">>>>,
     alt_names |-> <<>>,
     words |-> <<<<"c","h","a","n","g","e">>, <<"a","l","l">>, <<"d","a","y","s">>, <<"t","o">>, <<"l","e","g">>, <<"e","x","e","r","c","i","s","e","s">>>>]]

U_change_all_days_to_chest_exercises ==
  [text |-> <<"c","h","a","n","g","e"," ","a","l","l"," ","d","a","y","s"," ","t","o"," ","c","h","e","s","t"," ","e","x","e","r","c","i","s","e","s">>,
   create_conf |-> 0, show_conf |-> 0, edit_conf |-> 1357,
   days_count |-> 7,
   positive |-> FALSE, negative |-> FALSE,
   names |-> <<[raised |-> TRUE, names |-> <<>>],
              [raised |-> FALSE, names |-> <<<<"S","a","t","u","r","d","a","y">>>>],
              [raised |-> FALSE, names |-> <<<<"S","a","t","u","r","d","a","y">>, <<"M","o","n","d","a","y">>>>],
              [raised |-> FALSE, names |-> <<<<"S","a","t","u","r","d","a","y">>, <<"M","o","n","d","a","y">>, <<"T","u","e","s","d","a","y">>>>],
              [raised |-> FALSE, names |-> <<<<"S","a","t","u","r","d","a","y">>, <<"M","o","n","d","a","y">>, <<"T","u","e","s","d","a","y">>, <<"W","e","d","n","e","s","d","a","y">>>>],
              [raised |-> FALSE, names |-> <<<<"S","a","t","u","r","d","a","y">>, <<"M","o","n","d","a","y">>, <<"T","u","e","s","d","a","y">>, <<"W","e","d","n","e","s","d","a","y">>, <<"T","h","u","r","s","d","a","y">>>>],
              [raised |-> FALSE, names |-> <<<<"S","a","t","u","r","d","a","y">>, <<"M","o","n","d","a","y">>, <<"T","u","e","s","d","a","y">>, <<"W","e","d","n","e","s","d","a","y">>, <<"T","h","u","r","s","d","a","y">>, <<"F","r","i","d","a","y">>>>],
              [raised |-> FALSE, names |-> <<<<"S","a","t","u","r","d","a","y">>, <<"M","o","n","d","a","y">>, <<"T","u","e","s","d","a","y">>, <<"W","e","d","n","e","s","d","a","y">>, <<"T","h","u","r","s","d","a","y">>, <<"F","r","i","d","a","y">>, <<"S","u","n","d","a","y">>>>]>>,
   info |-> [is_muscle_specific_template |-> FALSE, muscle_focus |-> <<>>, has_days_info |-> TRUE, days_count |-> 7],
   instr |-> [text |-> <<"c","h","a","n","g","e"," ","a","l","l"," ","d","a","y","s"," ","t","o"," ","c","h","e","s","t"," ","e","x","e","r","c","i","s","e","s">>,
     bulk |-> [is_bulk_operation |-> TRUE, operation |-> "replace", target_muscle |-> <<"c","h","e","s","t">>, target_days |-> "all", specific_count |-> 0],
     title |-> [wants_title_change |-> FALSE, target_day |-> <<>>, new_title |-> <<>>],
     target_days |-> -1,
     add_matches |-> <<>>,
     add_alts |-> <<>>,
     week_hits |-> <<>>,
     day_hits |-> <<>>,
     candidate_phrases |-> <<<<"a","l","l"," ","d","a","y","s"," ","c","h","e","s","t">>, <<"a","l","l"," ","d","a","y","s">>, <<"d","a","y","s"," ","c","h","e","s","t">>, <<"d","a","y","s">>, <<"c","h","e","s","t">>>>,
     day_muscle |-> <<>>,
     replacement |-> <<<<"a","l","l"," ","d","a","y","s">>, <<"c","h","e","s","t"," ","e","x","e","r","c","i","s","e","s">>>>,
     alt_names |-> <<>>,
     words |-> <<<<"c","h","a","n","g","e">>, <<"a","l","l">>, <<"d","a","y","s">>, <<"t","o">>, <<"c","h","e","s","t">>, <<"e","x","e","r","c","i","s","e","s">>>>]]

U_monday_tuesday ==
  [text |-> <<"m","o","n","d","a","y",","," ","t","u","e","s","d","a","y">>,
   create_conf |-> 0, show_conf |-> 0, edit_conf |-> 0,
   days_count |-> 2,
   positive |-> FALSE, negative |-> FALSE,
   names |-> <<[raised |-> TRUE, names |-> <<>>],
              [raised |-> FALSE, names |-> <<<<"M","o","n","d","a","y">>>>],
              [raised |-> FALSE, names |-> <<<<"M","o","n","d","a","y">>, <<"T","u","e","s","d","a","y">>>>],
              [raised |-> FALSE, names |-> <<<<"M","o","n","d","a","y">>, <<"T","u","e","s","d","a","y">>, <<"W","e","d","n","e","s","d","a","y">>>>],
              [raised |-> FALSE, names |-> <<<<"M","o","n","d","a","y">>, <<"T","u","e","s","d","a","y">>, <<"W","e","d","n","e","s","d","a","y">>, <<"T","h","u","r","s","d","a","y">>>>],
              [raised |-> FALSE, names |-> <<<<"M","o","n","d","a","y">>, <<"T","u","e","s","d","a","y">>, <<"W","e","d","n","e","s","d","a","y">>, <<"T","h","u","r","s","d","a","y">>, <<"F","r","i","d","a","y">>>>],
              [raised |-> FALSE, names |-> <<<<"M","o","n","d","a","y">>, <<"T","u","e","s","d","a","y">>, <<"W","e","d","n","e","s","d","a","y">>, <<"T","h","u","r","s","d","a","y">>, <<"F","r","i","d","a","y">>, <<"S","a","t","u","r","d","a","y">>>>],
              [raised |-> FALSE, names |-> <<<<"M","o","n","d","a","y">>, <<"T","u","e","s","d","a","y">>, <<"W","e","d","n","e","s","d","a","y">>, <<"T","h","u","r","s","d","a","y">>, <<"F","r","i","d","a","y">>, <<"S","a","t","u","r","d","a","y">>, <<"S","u","n","d","a","y">>>>]>>,
   info |-> [is_muscle_specific_template |-> FALSE, muscle_focus |-> <<>>, has_days_info |-> TRUE, days_count |-> 2],
   instr |-> [text |-> <<"m","o","n","d","a","y",","," ","t","u","e","s","d","a","y">>,
     bulk |-> [is_bulk_operation |-> FALSE, operation |-> "none", target_muscle |-> <<>>, target_days |-> "all", specific_count |-> 0],
     title |-> [wants_title_change |-> FALSE, target_day |-> <<>>, new_title |-> <<>>],
     target_days |-> -1,
     add_matches |-> <<>>,
     add_alts |-> <<>>,
     week_hits |-> <<<<"m","o","n","d","a","y">>, <<"t","u","e","s","d","a","y">>>>,
     day_hits |-> <<<<"m","o","n","d","a","y">>, <<"t","u","e","s","d","a","y">>>>,
     candidate_phrases |-> <<>>,
     day_muscle |-> <<>>,
     replacement |-> <<>>,
     alt_names |-> <<>>,
     words |-> <<<<"m","o","n","d","a","y">>, <<"t","u","e","s","d","a","y">>>>]]

U_push_day ==
  [text |-> <<"p","u","s","h"," ","d","a","y">>,
   create_conf |-> 0, show_conf |-> 0, edit_conf |-> 0,
   days_count |-> 0,
   positive |-> FALSE, negative |-> FALSE,
   names |-> <<[raised |-> TRUE, names |-> <<>>],
              [raised |-> FALSE, names |-> <<<<"P","u","s","h">>>>],
              [raised |-> FALSE, names |-> <<<<"P","u","s","h">>, <<"T","u","e","s","d","a","y">>>>],
              [raised |-> FALSE, names |-> <<<<"P","u","s","h">>, <<"T","u","e","s","d","a","y">>, <<"W","e","d","n","e","s","d","a","y">>>>],
              [raised |-> FALSE, names |-> <<<<"P","u","s","h">>, <<"T","u","e","s","d","a","y">>, <<"W","e","d","n","e","s","d","a","y">>, <<"T","h","u","r","s","d","a","y">>>>],
              [raised |-> FALSE, names |-> <<<<"P","u","s","h">>, <<"T","u","e","s","d","a","y">>, <<"W","e","d","n","e","s","d","a","y">>, <<"T","h","u","r","s","d","a","y">>, <<"F","r","i","d","a","y">>>>],
              [raised |-> FALSE, names |-> <<<<"P","u","s","h">>, <<"T","u","e","s","d","a","y">>, <<"W","e","d","n","e","s","d","a","y">>, <<"T","h","u","r","s","d","a","y">>, <<"F","r","i","d","a","y">>, <<"S","a","t","u","r","d","a","y">>>>],
              [raised |-> FALSE, names |-> <<<<"P","u","s","h">>, <<"T","u","e","s","d","a","y">>, <<"W","e","d","n","e","s","d","a","y">>, <<"T","h","u","r","s","d","a","y">>, <<"F","r","i","d","a","y">>, <<"S","a","t","u","r","d","a","y">>, <<"S","u","n","d","a","y">>>>]>>,
   info |-> [is_muscle_specific_template |-> FALSE, muscle_focus |-> <<>>, has_days_info |-> FALSE, days_count |-> 0],
   instr |-> [text |-> <<"p","u","s","h"," ","d","a","y">>,
     bulk |-> [is_bulk_operation |-> FALSE, operation |-> "none", target_muscle |-> <<>>, target_days |-> "all", specific_count |-> 0],
     title |-> [wants_title_change |-> FALSE, target_day |-> <<>>, new_title |-> <<>>],
     target_days |-> -1,
     add_matches |-> <<>>,
     add_alts |-> <<>>,
     week_hits |-> <<>>,
     day_hits |-> <<>>,
     candidate_phrases |-> <<<<"p","u","s","h">>>>,
     day_muscle |-> <<>>,
     replacement |-> <<>>,
     alt_names |-> <<>>,
     words |-> <<<<"p","u","s","h">>, <<"d","a","y">>>>]]

U_push_push_pull ==
  [text |-> <<"p","u","s","h",","," ","p","u","s","h",","," ","p","u","l","l">>,
   create_conf |-> 0, show_conf |-> 0, edit_conf |-> 0,
   days_count |-> 0,
   positive |-> FALSE, negative |-> FALSE,
   names |-> <<[raised |-> TRUE, names |-> <<>>],
              [raised |-> FALSE, names |-> <<<<"P","u","s","h">>>>],
              [raised |-> FALSE, names |-> <<<<"P","u","s","h">>, <<"P","u","s","h">>>>],
              [raised |-> FALSE, names |-> <<<<"P","u","s","h">>, <<"P","u","s","h">>, <<"P","u","l","l">>>>],
              [raised |-> FALSE, names |-> <<<<"P","u","s","h">>, <<"P","u","s","h">>, <<"P","u","l","l">>, <<"T","h","u","r","s","d","a","y">>>>],
              [raised |-> FALSE, names |-> <<<<"P","u","s","h">>, <<"P","u","s","h">>, <<"P","u","l","l">>, <<"T","h","u","r","s","d","a","y">>, <<"F","r","i","d","a","y">>>>],
              [raised |-> FALSE, names |-> <<<<"P","u","s","h">>, <<"P","u","s","h">>, <<"P","u","l","l">>, <<"T","h","u","r","s","d","a","y">>, <<"F","r","i","d","a","y">>, <<"S","a","t","u","r","d","a","y">>>>],
              [raised |-> FALSE, names |-> <<<<"P","u","s","h">>, <<"P","u","s","h">>, <<"P","u","l","l">>, <<"T","h","u","r","s","d","a","y">>, <<"F","r","i","d","a","y">>, <<"S","a","t","u","r","d","a","y">>, <<"S","u","n","d","a","y">>>>]>>,
   info |-> [is_muscle_specific_template |-> FALSE, muscle_focus |-> <<>>, has_days_info |-> FALSE, days_count |-> 0],
   instr |-> [text |-> <<"p","u","s","h",","," ","p","u","s","h",","," ","p","u","l","l">>,
     bulk |-> [is_bulk_operation |-> FALSE, operation |-> "none", target_muscle |-> <<>>, target_days |-> "all", specific_count |-> 0],
     title |-> [wants_title_change |-> FALSE, target_day |-> <<>>, new_title |-> <<>>],
     target_days |-> -1,
     add_matches |-> <<>>,
     add_alts |-> <<>>,
     week_hits |-> <<>>,
     day_hits |-> <<>>,
     candidate_phrases |-> <<<<"p","u","s","h"," ","p","u","s","h"," ","p","u","l","l">>, <<"p","u","s","h"," ","p","u","s","h">>, <<"p","u","s","h"," ","p","u","l","l">>, <<"p","u","s","h">>, <<"p","u","s","h">>, <<"p","u","l","l">>>>,
     day_muscle |-> <<>>,
     replacement |-> <<>>,
     alt_names |-> <<>>,
     words |-> <<<<"p","u","s","h">>, <<"p","u","s","h">>, <<"p","u","l","l">>>>]]

\* what the user may say in a turn
Utterances == {U_i_need_a_new_workout_plan,
  U_make_me_a_workout,
  U_build_me_a_3_day_leg_workout_plan,
  U_show_my_template,
  U_3_days,
  U_skip,
  U_push_pull,
  U_chest,
  U_yes,
  U_no,
  U_save_it,
  U_hmm,
  U_i_want_5_days,
  U_remove_squat_from_monday,
  U_change_all_exercises,
  U_make_it_harder,
  U_i_want_to_edit_my_template,
  U_save_my_template,
  U_monday_tuesday,
  U_push_day,
  U_push_push_pull}

\* the instructions handed to enhanced_edit_template directly
Instructions ==
  {U_hmm.instr,
   U_i_want_5_days.instr,
   U_remove_squat_from_monday.instr,
   U_change_all_exercises.instr,
   U_make_it_harder.instr,
   U_monday_should_have_chest_exercises.instr,
   U_add_plank_to_monday.instr,
   U_replace_squat_with_lunge.instr,
   U_add_chest_exercises_to_all_days.instr,
   U_reduce_to_2_days.instr,
   U_rename_monday_to_leg_day.instr,
   U_remove_squats_from_tuesday.instr,
   U_remove_hip_thrust_from_monday.instr,
   U_add_bench_press_to_monday.instr,
   U_add_zumba_to_monday.instr,
   U_replace_squat_with_zumba.instr,
   U_rename_day_2_to_push_day.instr,
   U_change_all_days_to_leg_exercises.instr,
   U_change_all_days_to_chest_exercises.instr}

\* the instructions handed to llm_edit_template directly
LlmInstructions ==
  {U_hmm.instr, U_i_want_5_days.instr, U_reduce_to_2_days.instr}

(***************************************************************************)
(* What the language model may answer                                      *)
(***************************************************************************)
NoResp == [kind |-> "none"]

\* an exercise list as the model names it: catalog names, no ids
Named(ids) == [k \in 1..Len(ids) |-> Ex(0, CatalogRows[ids[k]].name, 3, 10)]

DocDays == <<
  [title |-> <<"L","e","g","s">>, muscle_groups |-> <<legs>>, exercises |-> Named(<<1, 2, 7, 6, 5, 12>>)],
  [title |-> <<"C","h","e","s","t">>, muscle_groups |-> <<chest>>, exercises |-> Named(<<3, 4, 8, 9, 10, 11>>)],
  [title |-> <<"B","a","c","k">>, muscle_groups |-> <<back>>, exercises |-> Named(<<5, 12, 6, 1, 2, 3>>)] >>

\* a generated document with the requested day keys
DocDay(key, p) == Day(key, p.title, p.muscle_groups, p.exercises)

GenDoc(template_names) ==
  Tpl([j \in 1..Len(template_names) |->
         DocDay(Lower(template_names[j]), DocDays[((j - 1) % Len(DocDays)) + 1])])

GenResponses(template_names) ==
  {[kind |-> "raise"], [kind |-> "malformed"], [kind |-> "tpl", tpl |-> GenDoc(template_names)]}

\* edited documents: the template as it is; with two more days that hold
\* invented exercises; with an invented exercise and a null muscle group
DocSame(t) == t
DocMoreDays(t) ==
  [t EXCEPT !.days = t.days \o
     <<Day(<<"d","a","y","_","a">>, <<"D","a","y"," ","A">>, <<full_body>>, <<ExForeignId, ExInvented>>),
       Day(<<"d","a","y","_","b">>, <<"D","a","y"," ","B">>, <<full_body>>, <<ExForeignId>>)>>]
DocForeign(t) ==
  IF t.days = <<>> THEN t
  ELSE [t EXCEPT !.days[1].muscle_groups = <<NonStr>>,
                 !.days[1].exercises = <<ExForeignId>> \o t.days[1].exercises]

EditResponses(t) ==
  {[kind |-> "raise"], [kind |-> "malformed"], [kind |-> "nodays"],
   [kind |-> "tpl", tpl |-> DocSame(t)], [kind |-> "tpl", tpl |-> DocMoreDays(t)],
   [kind |-> "tpl", tpl |-> DocForeign(t)]}

(***************************************************************************)
(* Templates and contexts the program has produced earlier                 *)
(***************************************************************************)
WeekNames == <<<<"M","o","n","d","a","y">>, <<"T","u","e","s","d","a","y">>, <<"W","e","d","n","e","s","d","a","y">>>>
SplitNames == <<<<"P","u","s","h">>, <<"P","u","l","l">>, <<"W","e","d","n","e","s","d","a","y">>>>

\* the draft _got_names stores for the names, under the catalog c
Draft(template_names, c) ==
  GotNames(template_names, <<>>, [kind |-> "tpl", tpl |-> GenDoc(template_names)], c).tpl

\* removals the user asked for in earlier turns
RemovalInstrs ==
  <<U_remove_squat_from_monday.instr, U_remove_lunge_from_monday.instr,
    U_remove_leg_press_from_monday.instr>>

AfterRemoval(t, r) == IF r.st = "ok" /\ r.tpl # Nil THEN r.tpl ELSE t

\* the template after the first n of the removals, each made through
\* enhanced_edit_template; a removal that matches nothing is answered by a
\* language model that is down
AfterRemovals_Next(prev, c, n) ==
  IF prev = Nil THEN prev
  ELSE AfterRemoval(prev, enhanced_edit_template(prev, RemovalInstrs[n], [kind |-> "raise"], c))

RECURSIVE AfterRemovals(_,_,_)
AfterRemovals(t, c, n) ==
  IF n = 0 THEN t
  ELSE AfterRemovals_Next(AfterRemovals(t, c, n - 1), c, n)

\* the drafts, and the weekday draft after one and after three removals
PriorTemplates(c) ==
  {Draft(template_names, c) : template_names \in {WeekNames, SplitNames}}
  \cup {AfterRemovals(Draft(WeekNames, c), c, n) : n \in {1, Len(RemovalInstrs)}}

\* contexts recover_conversation may be handed: ones the handler writes, and
\* an ASK_DAYS context whose profile already holds a day count
RecoveryData(c) ==
  {Context(st, FetchedProfile, Nil) :
     st \in {STATES.FETCH_PROFILE, STATES.ASK_DAYS, STATES.DRAFT_GENERATION}}
  \cup {Context(st, [FetchedProfile EXCEPT !.days_count = 3], Nil) :
          st \in {STATES.ASK_DAYS, STATES.ASK_NAMES}}
  \cup {Context(p[1], [FetchedProfile EXCEPT !.days_count = 3, !.template_names = p[2]],
                Draft(p[2], c)) :
          p \in ({STATES.EDIT_DECISION, STATES.APPLY_EDIT, STATES.CONFIRM_SAVE,
                  STATES.DONE} \X {WeekNames})
                \cup {<<STATES.EDIT_DECISION, SplitNames>>}}

(***************************************************************************)
(* State                                                                   *)
(*   cat    what load_catalog hands out                                    *)
(*   ctx    the pending conversation context in the store, Nil when absent *)
(*   saved  the stored template, Nil when none is stored                   *)
(*   last   the latest call and what it returned                           *)
(*   turns  requests of the conversation taken                             *)
(***************************************************************************)
VARIABLES cat, ctx, saved, last, turns

vars == <<cat, ctx, saved, last, turns>>

\* Bound: requests of one conversation followed
MaxTurns == 2

Init ==
  /\ cat \in CatalogStates
  /\ ctx = Nil
  /\ saved \in {Nil, Draft(WeekNames, cat)}
  /\ last = [op |-> "none"]
  /\ turns = 0

\* a direct call of the Catalog Enforcement Gate
Gate ==
  /\ last.op = "none"
  /\ \E input \in SeqToSet(GateInputs) :
       \E g \in {_enforce_catalog_on_template_db_dynamic(input.tpl, cat, input.names)} :
         last' = [op |-> "gate", input |-> input.tpl, raised |-> g.raised, out |-> g.tpl]
  /\ UNCHANGED <<cat, ctx, saved, turns>>

\* a direct call of llm_edit_template
LlmEdit ==
  /\ last.op = "none"
  /\ \E t \in PriorTemplates(cat) : \E i \in LlmInstructions : \E resp \in EditResponses(t) :
       last' = [op |-> "llm_edit", given |-> t, instr |-> i.text, resp |-> resp,
                r |-> Outcome(llm_edit_template(t, i, resp, cat))]
  /\ UNCHANGED <<cat, ctx, saved, turns>>

\* a direct call of enhanced_edit_template
Edit ==
  /\ last.op = "none"
  /\ \E t \in PriorTemplates(cat) : \E i \in Instructions :
       \E resp \in IF SettledByRule(t, i) THEN {NoResp} ELSE EditResponses(t) :
         last' = [op |-> "edit", given |-> t, instr |-> i.text, resp |-> resp,
                  r |-> Outcome(enhanced_edit_template(t, i, resp, cat))]
  /\ UNCHANGED <<cat, ctx, saved, turns>>

\* recover_conversation(user_id, recovery_data)
Recover ==
  /\ last.op = "none"
  /\ turns < MaxTurns
  /\ \E recovery_data \in RecoveryData(cat) :
       /\ ctx' = recovery_data
       /\ last' = [op |-> "recover"]
  /\ turns' = turns + 1
  /\ UNCHANGED <<cat, saved>>

\* reset_conversation(user_id)
Reset ==
  /\ last.op \in {"recover", "turn"}
  /\ turns < MaxTurns
  /\ ctx' = Nil
  /\ last' = [op |-> "reset"]
  /\ turns' = turns + 1
  /\ UNCHANGED <<cat, saved>>

\* the answers the language model may give to the call the turn makes
Responses(consults, pend, stored, u) ==
  IF consults = "edit"
  THEN EditResponses(IF pend # Nil /\ pend.template # Nil THEN pend.template ELSE stored)
  ELSE IF consults = "generate"
  THEN GenResponses(u.names[(IF pend = Nil \/ pend.profile.days_count = -1 THEN 6
                             ELSE pend.profile.days_count) + 1].names)
  ELSE {NoResp}

\* one request to ultra_flexible_workout_stream
Turn ==
  /\ last.op \in {"none", "recover", "reset", "turn"}
  /\ turns < MaxTurns
  /\ \E u \in Utterances :
       \E resp \in Responses(Consults(ctx, saved, u), ctx, saved, u) :
         \E store_ok \in IF Decide(ctx, u).next_state = STATES.DONE THEN BOOLEAN ELSE {TRUE} :
           \E t \in {ultra_flexible_workout_stream(ctx, saved, u, resp, cat, store_ok)} :
             /\ ctx' = t.ctx
             /\ saved' = t.saved
             /\ last' = [op |-> "turn", text |-> u.text, before |-> ctx, stored |-> saved,
                         resp |-> resp, store_ok |-> store_ok, out |-> t.out]
  /\ turns' = turns + 1
  /\ UNCHANGED cat

Next == Gate \/ LlmEdit \/ Edit \/ Recover \/ Reset \/ Turn

Spec == Init /\ [][Next]_vars

(***************************************************************************)
(* The fuzzy matcher on its own: calculate_similarity applied to a pair of *)
(* strings                                                                 *)
(***************************************************************************)
\* names as users and catalogs spell them, the empty string and a blank
SimStrings == {
  <<>>,
  <<" ">>,
  <<"s","q","u","a","t">>,
  <<"s","q","u","a","t","s">>,
  <<"S","q","u","a","t"," ">>,
  <<"l","e","g"," ","p","r","e","s","s">>,
  <<"l","e","g","p","r","e","s","s">>,
  <<"b","e","n","c","h"," ","p","r","e","s","s">>,
  <<"d","u","m","b","b","e","l","l"," ","i","n","c","l","i","n","e"," ","p","r","e","s","s">>,
  <<"d","u","m","b"," ","b","e","l","l"," ","p","r","e","s","s">>,
  <<"b","a","r","b","e","l","l"," ","r","o","w">>,
  <<"b","e","l","l"," ","b","a","r"," ","r","o","w">> }

SimInit ==
  /\ cat = Catalog("ok", MaxCatalog)
  /\ ctx = Nil
  /\ saved = Nil
  /\ last = [op |-> "none"]
  /\ turns = 0

\* a call of calculate_similarity(str1, str2)
Similarity ==
  /\ last.op = "none"
  /\ \E str1 \in SimStrings : \E str2 \in SimStrings :
       last' = [op |-> "similarity", str1 |-> str1, str2 |-> str2,
                r |-> calculate_similarity(str1, str2)]
  /\ UNCHANGED <<cat, ctx, saved, turns>>

SimNext == Similarity

SimSpec == SimInit /\ [][SimNext]_vars

(***************************************************************************)
(* A conversation opened by a create request that names both a day count   *)
(* and a muscle, and carried on with utterances that are neither a create  *)
(* nor an edit request.  The user keeps answering for as long as no draft  *)
(* is ready.                                                               *)
(***************************************************************************)
\* the context holds a generated template and waits for the edit decision
DraftReady == ctx # Nil /\ ctx.state = STATES.EDIT_DECISION /\ ctx.template # Nil

\* the create request: extract_comprehensive_workout_info finds a muscle and
\* a day count in it
Ask ==
  /\ turns = 0
  /\ \E u \in {v \in Utterances : /\ v.info.is_muscle_specific_template
                                  /\ v.info.muscle_focus # <<>>
                                  /\ v.info.has_days_info
                                  /\ Decide(ctx, v).next_state = STATES.FETCH_PROFILE} :
       \E t \in {ultra_flexible_workout_stream(ctx, saved, u, NoResp, cat, TRUE)} :
         /\ ctx' = t.ctx
         /\ saved' = t.saved
         /\ last' = [op |-> "turn", text |-> u.text, before |-> ctx, stored |-> saved,
                     resp |-> NoResp, store_ok |-> TRUE, out |-> t.out]
  /\ turns' = 1
  /\ UNCHANGED cat

\* a further request that is neither a create nor an edit request
Follow ==
  /\ turns = 1
  /\ ~DraftReady
  /\ \E u \in {v \in Utterances : Decide(ctx, v).intent \notin {"create", "edit"}} :
       \E resp \in Responses(Consults(ctx, saved, u), ctx, saved, u) :
         \E t \in {ultra_flexible_workout_stream(ctx, saved, u, resp, cat, TRUE)} :
           /\ ctx' = t.ctx
           /\ saved' = t.saved
           /\ last' = [op |-> "turn", text |-> u.text, before |-> ctx, stored |-> saved,
                       resp |-> resp, store_ok |-> TRUE, out |-> t.out]
  /\ UNCHANGED <<cat, turns>>

FollowNext == Ask \/ Follow

FollowSpec == Init /\ [][FollowNext]_vars /\ WF_vars(Ask) /\ WF_vars(Follow)

(***************************************************************************)
(* Claims                                                                  *)
(***************************************************************************)
DaySizesOk(tpl) == \A i \in 1..Len(tpl.days) :
  Len(tpl.days[i].exercises) >= 6 /\ Len(tpl.days[i].exercises) <= 8

IdsInCatalog(tpl, c) == \A i \in 1..Len(tpl.days) : ExIds(tpl.days[i]) \subseteq ById(c)

\* C1: whatever template and catalog snapshot the Catalog Enforcement Gate is
\* given, every day of the template it returns holds between 6 and 8
\* exercises and every exercise id is a key of the snapshot.
C1_GateOutputSixToEightFromCatalog ==
  (last.op = "gate" /\ cat.status = "ok")
    => (DaySizesOk(last.out) /\ IdsInCatalog(last.out, cat))

\* the instruction record an operation was handed, from the text kept in last
InstrOf(text) == CHOOSE i \in Instructions : i.text = text

\* enhanced_edit_template returned a (template, summary) pair
EditReturned == last.op = "edit" /\ last.r.st = "ok" /\ last.r.tpl # Nil

\* the catalog is loaded and holds every row
FullCatalog == cat = Catalog("ok", MaxCatalog)

\* the instruction asks for fewer or for more days than the template has
DayCountChange(instr, template) ==
  \/ user_wants_day_reduction(instr, Len(template.days))
  \/ user_wants_day_expansion(instr, Len(template.days))

\* C2: after any mutation made through enhanced_edit_template, here under the
\* full catalog, every day of the returned template holds between six and
\* eight exercises
C2_EveryDaySixToEightAfterEdit ==
  (EditReturned /\ FullCatalog /\ last.r.tpl # last.given) => DaySizesOk(last.r.tpl)

\* C3: no operation of the mutation engine returns a template that holds an
\* exercise whose id is not in the catalog, an accepted language-model edit
\* and an accepted day-count change included
C3_NoForeignIdAfterEdit ==
  (EditReturned /\ FullCatalog) => IdsInCatalog(last.r.tpl, cat)

\* C4: for every instruction that is not a day-count change the returned
\* template has exactly the day keys of the input, whatever the language
\* model returns and however it fails
C4_DayKeysStable ==
  (EditReturned /\ FullCatalog /\ ~DayCountChange(InstrOf(last.instr), last.given))
    => KeySet(last.r.tpl) = KeySet(last.given)

\* the instruction carries an explicit signal for the direction in which the
\* day count of the answer differs
SignalledChange(instr, given, answer) ==
  \/ user_wants_day_reduction(instr, Len(given.days)) /\ Len(answer.days) < Len(given.days)
  \/ user_wants_day_expansion(instr, Len(given.days)) /\ Len(answer.days) > Len(given.days)

\* the language model answered llm_edit_template with a document whose day
\* keys differ from the template's
LlmAnswerDiffers ==
  /\ last.op = "llm_edit"
  /\ last.resp.kind = "tpl"
  /\ KeySet(last.resp.tpl) # KeySet(last.given)

\* C5: an answer of the language model whose day keys differ from the
\* template's is accepted only on an explicit reduction signal with fewer days
\* or an explicit expansion signal with more days; otherwise the template
\* handed in comes back with the structure-preserved summary
C5_DifferingKeysNeedSignal ==
  LlmAnswerDiffers =>
    /\ last.r.st = "ok"
    /\ IF SignalledChange(InstrOf(last.instr), last.given, last.resp.tpl)
       THEN KeySet(last.r.tpl) = KeySet(last.resp.tpl) /\ last.r.summary = "llm"
       ELSE last.r.tpl = last.given /\ last.r.summary = "structure_preserved"

\* a differing answer was turned down
C5_Witness_Rejected ==
  /\ LlmAnswerDiffers
  /\ ~SignalledChange(InstrOf(last.instr), last.given, last.resp.tpl)
  /\ last.r.summary = "structure_preserved"
  /\ cat.status = "ok"

\* the call to the language model failed: it raised or timed out, or its
\* answer could not be parsed
LlmFailed == last.resp.kind \in {"raise", "malformed"}

\* no rule-based handler applies to the instruction: enhanced_edit_template
\* settles it by no rule and apply_manual_edit finds no pattern in it
NoRuleApplies(template, instr) ==
  /\ ~SettledByRule(template, instr)
  /\ instr.day_muscle = <<>>
  /\ ~HasAny(instr.text, alternative_words)
  /\ ~HasAny(instr.text, replacement_words)

\* C6: when the language model fails and no rule-based handler applies to the
\* instruction, the returned template equals the input and the summary tells
\* of a soft failure
C6_SoftFailureKeepsTemplate ==
  (last.op = "edit" /\ LlmFailed /\ FullCatalog /\ NoRuleApplies(last.given, InstrOf(last.instr)))
    => (last.r.st = "ok" /\ last.r.tpl = last.given /\ last.r.summary = "soft_failure")

\* C7: enhanced_edit_template never raises; it always returns a template and
\* a summary
C7_EditNeverRaises ==
  last.op = "edit" => (last.r.st = "ok" /\ last.r.tpl # Nil)

\* the template a persisted context holds, Nil when nothing is persisted
PersistedTemplate(context) == IF context = Nil THEN Nil ELSE context.template

\* summaries with which an edit tells that it failed
FailureSummaries ==
  {"soft_failure", "could_not_change_all", "database_error", "data_unavailable",
   "no_valid_structure"}

\* the edit of a turn that began with a persisted template failed: it
\* raised, or returned a failure summary
TurnEditFailed ==
  /\ last.op = "turn"
  /\ last.out.edit # Nil
  /\ PersistedTemplate(last.before) # Nil
  /\ (last.out.edit.st # "ok" \/ last.out.edit.summary \in FailureSummaries)

\* C8: when the edit of a turn fails, the template persisted in the context
\* after the turn equals the template persisted before it
C8_FailedEditKeepsPersistedTemplate ==
  TurnEditFailed => PersistedTemplate(ctx) = PersistedTemplate(last.before)

\* C9: when the catalog cannot be loaded every mutating operation and the
\* gate abort: the template returned equals the input and the summary tells
\* that the data is unavailable
C9_NoCatalogAborts ==
  /\ (last.op = "gate" /\ cat.status # "ok" /\ ~last.raised) => last.out = last.input
  /\ (last.op = "edit" /\ cat.status # "ok" /\ last.r.st = "ok")
       => (last.r.tpl = last.given /\ last.r.summary \in {"data_unavailable", "database_error"})

\* a turn in which the create intent was extracted with confidence above 0.3
CreateTurn ==
  last.op = "turn" /\ last.out.intent = "create" /\ last.out.confidence > 3000

\* C10: when the extracted intent is create with confidence above 0.3 the
\* conversation moves to FETCH_PROFILE from every state
C10_CreateGoesToFetchProfile ==
  CreateTurn => last.out.next_state = STATES.FETCH_PROFILE

\* the create jump was taken from the state in which an edit is decided
C10_Witness_FromEditDecision ==
  /\ CreateTurn
  /\ last.before # Nil
  /\ last.before.state = STATES.EDIT_DECISION
  /\ last.out.next_state = STATES.FETCH_PROFILE

\* the utterance of a turn, from the text kept in last
UtterOf(text) == CHOOSE u \in Utterances : u.text = text

\* the intent of the turn takes one of the global jumps of determine_next_state
GlobalJump ==
  \/ last.out.intent = "create" /\ last.out.confidence > 3000
  \/ last.out.intent = "show" /\ last.out.confidence > 2500
  \/ last.out.intent = "edit" /\ last.out.confidence > 2000

\* a turn whose intent is show with confidence above 0.25
ShowTurn == last.op = "turn" /\ last.out.intent = "show" /\ last.out.confidence > 2500

\* C11: a show turn is stateless: from any state it leaves the persisted
\* context (state, profile, template) as it was, edits no template and leaves
\* the saved template alone
C11_ShowTurnIsStateless ==
  ShowTurn => (ctx = last.before /\ saved = last.stored /\ last.out.edit = Nil)

\* the saved template was shown while a conversation with a draft was pending
C11_Witness_ShownWhileEditing ==
  /\ ShowTurn
  /\ last.out.branch = "show_saved"
  /\ PersistedTemplate(last.before) # Nil
  /\ ctx = last.before

\* a turn whose intent is edit with confidence above 0.2
EditJumpTurn == last.op = "turn" /\ last.out.intent = "edit" /\ last.out.confidence > 2000

\* C12: determine_next_state takes the edit jump to APPLY_EDIT only from a
\* context in which a template exists (pending or saved); without a template
\* the jump is not taken
C12_EditJumpNeedsTemplate ==
  (EditJumpTurn /\ last.out.next_state = STATES.APPLY_EDIT)
    => (PersistedTemplate(last.before) # Nil \/ last.stored # Nil)

\* a turn taken in ASK_DAYS whose intent takes no global jump
AskDaysTurn ==
  /\ last.op = "turn"
  /\ last.before # Nil
  /\ last.before.state = STATES.ASK_DAYS
  /\ ~GlobalJump

\* a positive day count was read from the utterance, or the context holds one
DaysKnown == UtterOf(last.text).days_count > 0 \/ last.before.profile.days_count > 0

\* C13: in ASK_DAYS, absent a global jump, the next state is ASK_NAMES exactly
\* when a positive day count was extracted or the context already holds one;
\* otherwise the state stays ASK_DAYS and the turn leaves the persisted
\* context as it was
C13_AskDaysMovesOnlyWithDays ==
  AskDaysTurn =>
    IF DaysKnown
    THEN last.out.next_state = STATES.ASK_NAMES /\ ctx.state = STATES.ASK_NAMES
    ELSE last.out.next_state = STATES.ASK_DAYS /\ ctx = last.before

\* the conversation stayed in ASK_DAYS for want of a day count
C13_Witness_Stays ==
  AskDaysTurn /\ ~DaysKnown /\ ctx = last.before /\ last.out.branch = "no_change"

\* a turn taken in EDIT_DECISION whose utterance holds an explicit save phrase
SavePhraseTurn ==
  /\ last.op = "turn"
  /\ last.before # Nil
  /\ last.before.state = STATES.EDIT_DECISION
  /\ HasAny(Lower(last.text), save_commands)

\* C14: in EDIT_DECISION every utterance that holds an explicit save phrase
\* goes to CONFIRM_SAVE, whatever intent was extracted from it
C14_SavePhraseGoesToConfirmSave ==
  SavePhraseTurn => (last.out.next_state = STATES.CONFIRM_SAVE /\ ctx.state = STATES.CONFIRM_SAVE)

\* the turn entered DONE
EnteredDone ==
  last.op = "turn" /\ last.out.next_state = STATES.DONE /\ last.out.state # STATES.DONE

\* C15: DONE is entered only from CONFIRM_SAVE on a positive response; a turn
\* clears the persisted context only when it entered DONE and stored the
\* template; when storing fails the persisted context is left as it was
C15_DoneOnlyAfterConfirmedSave ==
  /\ EnteredDone => (last.out.state = STATES.CONFIRM_SAVE /\ UtterOf(last.text).positive)
  /\ (last.op = "turn" /\ last.before # Nil /\ ctx = Nil) => (EnteredDone /\ last.store_ok)
  /\ (EnteredDone /\ ~last.store_ok) => ctx = last.before

\* storing failed on the way into DONE and the context was kept
C15_Witness_StoreFailed ==
  EnteredDone /\ ~last.store_ok /\ ctx = last.before /\ ctx # Nil /\ last.out.branch = "store_error"

\* C16: each utterance produces exactly one state transition: the state
\* persisted after the turn is the successor determine_next_state chose for
\* the state persisted before it, or the same state on a stay
C16_OneTransitionPerUtterance ==
  (last.op = "turn" /\ last.out.st = "ok" /\ ctx # Nil)
    => (ctx.state = last.out.next_state \/ ctx = last.before)

\* the number of terminal done events in an event sequence
DoneCount(events) == Cardinality({i \in 1..Len(events) : events[i] = DoneEvent})

\* C17: every turn emits an ordered sequence of events that ends with
\* exactly one terminal done event, emitted last, on every path: the
\* profile-fetch path, the error paths and the early exits included
C17_TurnEndsWithOneDoneEvent ==
  (last.op = "turn" /\ last.out.st = "ok")
    => /\ last.out.events # <<>>
       /\ last.out.events[Len(last.out.events)] = DoneEvent
       /\ DoneCount(last.out.events) = 1

\* the turn stored the template on its way into DONE
SavedByTurn == EnteredDone /\ last.store_ok

\* C18: a template held in the conversation context stays in the context
\* (possibly edited) across every later turn until a save succeeds or the
\* conversation is reset; no create, show or edit jump discards it
C18_TemplateKeptUntilSaved ==
  (last.op = "turn" /\ PersistedTemplate(last.before) # Nil /\ ~SavedByTurn)
    => PersistedTemplate(ctx) # Nil

\* the candidates handle_remove_exercise collects for the instruction: those
\* of the named day when the instruction names one, else of every day
SearchedCandidates(template, instr) ==
  DayCandidates(template.days,
                IF FindDay(template, instr.day_hits) # 0
                THEN FindDay(template, instr.day_hits) ELSE 1,
                IF FindDay(template, instr.day_hits) # 0
                THEN FindDay(template, instr.day_hits) ELSE Len(template.days),
                instr.candidate_phrases)

\* some (day, exercise) pair of the searched days scores at least 0.5 against
\* a candidate phrase
ConfidentPair(template, instr) ==
  \E k \in 1..Len(SearchedCandidates(template, instr)) :
    SearchedCandidates(template, instr)[k].similarity >= 5000

\* enhanced_edit_template was called with an instruction that reaches
\* handle_remove_exercise
RemoveCalled ==
  /\ last.op = "edit"
  /\ IsRemoval(InstrOf(last.instr))
  /\ ~BulkRequested(InstrOf(last.instr))
  /\ ~ChangeAllRequested(InstrOf(last.instr))

\* C19: when no exercise of the searched days scores at least 0.5 against a
\* remove instruction, enhanced_edit_template returns a template equal to
\* the one it was given, with a summary
C19_NoConfidentMatchKeepsTemplate ==
  (RemoveCalled /\ ~ConfidentPair(last.given, InstrOf(last.instr)))
    => (last.r.st = "ok" /\ last.r.tpl = last.given /\ last.r.summary # "none")

\* the template without the entries equal to the candidate's exercise
WithoutCandidate(template, c) ==
  [template EXCEPT !.days[c.day].exercises =
     SelectSeq(@, LAMBDA ex : ex # template.days[c.day].exercises[c.index])]

\* the candidate has the highest similarity of all
HighestSimilarity(cands, k) ==
  \A j \in 1..Len(cands) : cands[j].similarity <= cands[k].similarity

\* C20: remove commits exactly when some (day, exercise) pair of the
\* candidate days scores at least 0.5 against a candidate phrase, and the
\* entry it removes is a pair with the highest similarity of all
C20_RemoveCommitsOnBestPair ==
  RemoveCalled =>
    /\ (last.r.st = "ok" /\ last.r.summary = "removed")
         <=> ConfidentPair(last.given, InstrOf(last.instr))
    /\ (last.r.st = "ok" /\ last.r.summary = "removed")
         => \E k \in 1..Len(SearchedCandidates(last.given, InstrOf(last.instr))) :
              /\ HighestSimilarity(SearchedCandidates(last.given, InstrOf(last.instr)), k)
              /\ last.r.tpl = WithoutCandidate(last.given,
                                SearchedCandidates(last.given, InstrOf(last.instr))[k])

\* enhanced_edit_template was called with an instruction that reaches
\* handle_specific_exercise_addition
AddCalled ==
  /\ last.op = "edit"
  /\ IsSubstr(<<"a","d","d">>, InstrOf(last.instr).text)
  /\ ~BulkRequested(InstrOf(last.instr))
  /\ ~ChangeAllRequested(InstrOf(last.instr))
  /\ ~IsRemoval(InstrOf(last.instr))

\* what handle_specific_exercise_addition answered to the call
AddAnswer == handle_specific_exercise_addition(last.given, InstrOf(last.instr), cat).summary

\* C21: an add request is rejected with no mutation of any day, the returned
\* template being equal to the input, when the target day or the exercise
\* cannot be resolved or the target day already holds 8 exercises
C21_RejectedAddKeepsTemplate ==
  (AddCalled /\ AddAnswer \in {"day_not_identified", "exercise_not_found", "day_full"})
    => (last.r.st = "ok" /\ last.r.tpl = last.given)

\* the add handler placed an exercise in the one day the instruction names
NamedDayAdd ==
  /\ AddCalled
  /\ AddAnswer = "added"
  /\ \A i \in 1..Len(InstrOf(last.instr).add_matches) :
       InstrOf(last.instr).add_matches[i][2] \notin all_days_words

\* day d of after is day d of before with one catalog entry appended, and
\* every other day is as it was
GrownByOne(before, after, d, c) ==
  /\ Len(after.days) = Len(before.days)
  /\ Len(after.days[d].exercises) = Len(before.days[d].exercises) + 1
  /\ SubSeq(after.days[d].exercises, 1, Len(before.days[d].exercises))
       = before.days[d].exercises
  /\ after.days[d].exercises[Len(after.days[d].exercises)].id \in ById(c)
  /\ \A e \in 1..Len(before.days) : e # d => after.days[e] = before.days[e]

\* C22: adding a catalog exercise to a named day that holds fewer than 8
\* exercises and lacks it grows that day by exactly one entry, which carries
\* the exercise's catalog id, and leaves every other day unchanged
C22_AddGrowsNamedDayByOne ==
  NamedDayAdd =>
    /\ last.r.st = "ok"
    /\ \E d \in 1..Len(last.given.days) : GrownByOne(last.given, last.r.tpl, d, cat)

\* enhanced_edit_template answered with a replacement made by
\* apply_manual_edit
ReplaceDone ==
  /\ last.op = "edit"
  /\ last.r.st = "ok"
  /\ last.r.summary = "replaced"

\* entry i of day d was swapped for a catalog entry that keeps its sets and
\* reps and whose id the day did not hold; all else is as it was
SwappedOne(before, after, d, i, c) ==
  /\ Len(after.days) = Len(before.days)
  /\ Len(after.days[d].exercises) = Len(before.days[d].exercises)
  /\ after.days[d].exercises[i].id \in ById(c)
  /\ after.days[d].exercises[i].id \notin ExIds(before.days[d])
  /\ after.days[d].exercises[i].sets = before.days[d].exercises[i].sets
  /\ after.days[d].exercises[i].reps = before.days[d].exercises[i].reps
  /\ \A j \in 1..Len(before.days[d].exercises) :
       j # i => after.days[d].exercises[j] = before.days[d].exercises[j]
  /\ \A e \in 1..Len(before.days) : e # d => after.days[e] = before.days[e]

\* C23: a successful replace or alternate swaps exactly one entry of one
\* day: the new entry keeps the sets and reps of the old one and has a
\* catalog id the day did not hold; the day's count, every other entry and
\* every other day are unchanged
C23_ReplaceSwapsOneEntry ==
  ReplaceDone =>
    \E d \in 1..Len(last.given.days) : \E i \in 1..Len(last.given.days[d].exercises) :
      SwappedOne(last.given, last.r.tpl, d, i, cat)

\* the instruction is "replace X with Y" and no usable catalog exercise
\* scores above 0.6 against Y
ReplacementUnmatched ==
  /\ last.op = "edit"
  /\ cat.status = "ok"
  /\ InstrOf(last.instr).replacement # <<>>
  /\ IsSubstr(<<"r","e","p","l","a","c","e">>, InstrOf(last.instr).text)
  /\ ~BulkRequested(InstrOf(last.instr))
  /\ ~ChangeAllRequested(InstrOf(last.instr))
  /\ \A id \in ById(cat) :
       calculate_similarity(Lower(InstrOf(last.instr).replacement[2]),
                            Lower(cat.by_id[id].name)) <= 6000

\* C24: in "replace X with Y", when Y matches no catalog exercise above the
\* threshold, nothing is changed: the returned template equals the input
C24_UnmatchedReplacementKeepsTemplate ==
  ReplacementUnmatched => (last.r.st = "ok" /\ last.r.tpl = last.given)



\* a day-rename request that found its day
RenameDone == last.op = "edit" /\ last.r.st = "ok" /\ last.r.summary = "renamed"

\* day d of after is day d of before under another title, and every other
\* day is as it was
OnlyTitleChanged(before, after, d) ==
  /\ Len(after.days) = Len(before.days)
  /\ after.days[d] = [before.days[d] EXCEPT !.title = after.days[d].title]
  /\ \A j \in 1..Len(before.days) : j # d => after.days[j] = before.days[j]

\* C25: renaming a day by position or by name changes only the title of the
\* matched day: the keys and their order, the key of the renamed day and the
\* exercises of every day are as they were
C25_RenameChangesOnlyTitle ==
  RenameDone
    => \E d \in 1..Len(last.given.days) : OnlyTitleChanged(last.given, last.r.tpl, d)


\* a bulk request to replace the exercises of all days that was carried out
BulkReplaceDone ==
  /\ last.op = "edit"
  /\ BulkRequested(InstrOf(last.instr))
  /\ InstrOf(last.instr).bulk.operation = "replace"
  /\ InstrOf(last.instr).bulk.target_days = "all"
  /\ last.r.st = "ok"
  /\ last.r.summary = "bulk_changed"

\* the day holds at least six entries, each a catalog exercise of one of the
\* groups, and no id twice
DayOfMuscle(day, groups, c) ==
  /\ Len(day.exercises) >= 6
  /\ \A i \in 1..Len(day.exercises) :
       /\ day.exercises[i].id \in ById(c)
       /\ c.by_id[day.exercises[i].id].muscle_group \in SeqToSet(groups)
  /\ \A i, j \in 1..Len(day.exercises) :
       day.exercises[i].id = day.exercises[j].id => i = j

\* C26: a bulk replace over all days leaves every day with at least six
\* exercises, all of catalog groups mapped to the requested muscle, and no id
\* twice within a day
C26_BulkReplaceFillsEveryDay ==
  BulkReplaceDone
    => \A d \in 1..Len(last.r.tpl.days) :
         DayOfMuscle(last.r.tpl.days[d],
                     muscle_mapping(InstrOf(last.instr).bulk.target_muscle), cat)


\* no catalog id stands twice in a day of the template
NoRepeatedId(tpl) ==
  \A d \in 1..Len(tpl.days) : \A i, j \in 1..Len(tpl.days[d].exercises) :
    (tpl.days[d].exercises[i].id # 0
     /\ tpl.days[d].exercises[i].id = tpl.days[d].exercises[j].id) => i = j

\* C27: in every template produced by generation or returned by an edit
\* operation no exercise id occurs twice within the same day
C27_NoIdTwiceInADay ==
  /\ (last.op \in {"edit", "llm_edit"} /\ last.r.st = "ok" /\ last.r.tpl # Nil)
       => NoRepeatedId(last.r.tpl)
  /\ (last.op = "turn" /\ ctx # Nil /\ ctx.template # Nil) => NoRepeatedId(ctx.template)


\* a generation turn that stored its draft with state EDIT_DECISION
DraftPersisted ==
  /\ last.op = "turn"
  /\ last.out.branch \in {"muscle_draft", "draft"}
  /\ ctx # Nil
  /\ ctx.state = STATES.EDIT_DECISION
  /\ ctx.template # Nil

\* C28: on every generation path, the general draft and the muscle-specific
\* draft alike, the draft a generation turn persists with state EDIT_DECISION
\* has six to eight exercises in every day, each with a catalog id
C28_PersistedDraftIsGated ==
  DraftPersisted => (DaySizesOk(ctx.template) /\ IdsInCatalog(ctx.template, cat))


\* the gate was called and returned
GateReturned == last.op = "gate" /\ ~last.raised

\* the gate, handed document tpl a second time with the same names and the
\* same catalog, returns it as it is
GateKeeps(tpl, names, c) ==
  _enforce_catalog_on_template_db_dynamic(tpl, c, names) = [tpl |-> tpl, raised |-> FALSE]

\* C29: the Catalog Enforcement Gate is idempotent: applied to its own
\* result, with the same catalog snapshot, it returns that result unchanged
C29_GateIsIdempotent ==
  GateReturned
    => \A k \in 1..Len(GateInputs) :
         GateInputs[k].tpl = last.input => GateKeeps(last.out, GateInputs[k].names, cat)


C29_Witness_GateRewrote ==
  GateReturned /\ cat.status = "ok" /\ last.out # last.input


\* every exercise carries a catalog id and the catalog's name for it, no id
\* stands twice in a day, and every day holds six to eight exercises
ValidTemplate(tpl, c) ==
  /\ DaySizesOk(tpl)
  /\ \A d \in 1..Len(tpl.days) : \A i \in 1..Len(tpl.days[d].exercises) :
       /\ tpl.days[d].exercises[i].id \in ById(c)
       /\ tpl.days[d].exercises[i].name = c.by_id[tpl.days[d].exercises[i].id].name
       /\ \A j \in 1..Len(tpl.days[d].exercises) :
            tpl.days[d].exercises[i].id = tpl.days[d].exercises[j].id => i = j

\* every exercise carries a number of sets and of reps
PlanGiven(tpl) ==
  \A d \in 1..Len(tpl.days) : \A i \in 1..Len(tpl.days[d].exercises) :
    tpl.days[d].exercises[i].sets # 0 /\ tpl.days[d].exercises[i].reps # 0

C31_SimilarityIsSymmetric ==
  last.op = "similarity" => last.r = calculate_similarity(last.str2, last.str1)

\* the string is empty or holds only blanks
Blank(s) == Strip(s) = <<>>

\* C32: calculate_similarity returns 0.0 whenever either input is empty or
\* only whitespace
C32_EmptyInputScoresZero ==
  (last.op = "similarity" /\ (Blank(last.str1) \/ Blank(last.str2))) => last.r = 0


\* a turn whose utterance scores below the floor for every intent, taken
\* outside the edit and confirm loop
UnclearTurn ==
  /\ last.op = "turn"
  /\ last.out.confidence < 1500
  /\ last.out.state \notin {STATES.EDIT_DECISION, STATES.APPLY_EDIT, STATES.CONFIRM_SAVE}

\* C33: an utterance whose highest confidence is below 0.15 has intent
\* 'unknown' and, outside the edit and confirm loop, its turn advances no
\* persisted state and creates or changes no template
C33_UnclearTurnChangesNothing ==
  UnclearTurn => (last.out.intent = "unknown" /\ ctx = last.before /\ saved = last.stored)


\* the create request was answered by skipping the questions: the context
\* waits in DRAFT_GENERATION with the day count and the muscle in its profile
SkippedToGeneration ==
  /\ turns = 1
  /\ ctx # Nil
  /\ ctx.state = STATES.DRAFT_GENERATION
  /\ ctx.profile.muscle_focus # <<>>
  /\ ctx.profile.days_count > 0

\* C34: a create request that carries both a day count and a muscle focus
\* skips the questions, and the conversation then reaches EDIT_DECISION with
\* a generated template in context without a new create or edit request
C34_SkipLeadsToDraft == SkippedToGeneration ~> DraftReady


\* a reply given in ASK_NAMES that names the days: weekday names, muscle
\* groups, or a name of the user's own
NamesReply ==
  /\ last.op = "turn"
  /\ last.before # Nil
  /\ last.before.state = STATES.ASK_NAMES
  /\ last.text \in {U_monday_tuesday.text, U_push_pull.text, U_push_day.text}

\* C35: in ASK_NAMES a reply that names the workout days, in any of the forms
\* the prompt invites, advances to DRAFT_GENERATION and, the catalog being
\* there, produces a draft template in the same turn
C35_NamesReplyProducesDraft ==
  NamesReply
    => /\ last.out.next_state = STATES.DRAFT_GENERATION
       /\ cat.status = "ok" => (ctx.state = STATES.EDIT_DECISION /\ ctx.template # Nil)


\* _validate_template_integrity(template) (lines 912-928): the template has
\* days and at least one day has an exercise
_validate_template_integrity(tpl) ==
  /\ tpl # Nil
  /\ tpl.days # <<>>
  /\ \E d \in 1..Len(tpl.days) : tpl.days[d].exercises # <<>>

\* a save was confirmed in CONFIRM_SAVE for a template that fails the
\* integrity validation
ConfirmedBrokenSave ==
  /\ last.op = "turn"
  /\ last.before # Nil
  /\ last.before.state = STATES.CONFIRM_SAVE
  /\ (UtterOf(last.text).positive
      \/ Lower(Strip(last.text)) \in {<<"s","a","v","e">>, <<"y","e","s">>, <<"c","o","n","f","i","r","m">>})
  /\ ~_validate_template_integrity(last.before.template)

\* C36: a template that fails the integrity validation is never stored:
\* confirming its save in CONFIRM_SAVE yields an error event, stores nothing
\* and leaves the pending context in place
C36_BrokenTemplateIsNeverStored ==
  ConfirmedBrokenSave
    => /\ saved = last.stored
       /\ ctx = last.before
       /\ \E i \in 1..Len(last.out.events) : last.out.events[i] = "error"


\* C37: every edit operation terminates, for every catalog the model
\* enumerates, those with fewer than six matching rows and fewer than six rows
\* in all included: no call of enhanced_edit_template or llm_edit_template,
\* and no turn that applies an edit, fails to return
C37_EveryEditTerminates ==
  /\ last.op \in {"edit", "llm_edit"} => last.r.st # "diverges"
  /\ last.op = "turn" => last.out.st # "diverges"


\* a turn taken while the persisted state is EDIT_DECISION or CONFIRM_SAVE
EditContextTurn ==
  /\ last.op = "turn"
  /\ last.before # Nil
  /\ last.before.state \in {STATES.EDIT_DECISION, STATES.CONFIRM_SAVE}

\* C38: when the persisted state is EDIT_DECISION or CONFIRM_SAVE, the intent
\* and confidence of the turn are the ones chosen after raising the edit
\* confidence of the utterance by 0.2
C38_EditContextBoostsEdit ==
  EditContextTurn
    => /\ last.out.intent =
            extract_intent_Best(UtterOf(last.text).create_conf, UtterOf(last.text).show_conf,
                                UtterOf(last.text).edit_conf + 2000).intent
       /\ last.out.confidence =
            extract_intent_Best(UtterOf(last.text).create_conf, UtterOf(last.text).show_conf,
                                UtterOf(last.text).edit_conf + 2000).confidence

\* a turn generated a draft for a conversation whose day count was accepted
\* in ASK_DAYS
DraftForCount ==
  /\ last.op = "turn"
  /\ last.out.branch \in {"draft", "muscle_draft"}
  /\ last.before # Nil
  /\ last.before.profile.days_count > 0
  /\ ctx # Nil
  /\ ctx.template # Nil

\* C39: after draft generation the template has exactly as many days as the
\* day count accepted in ASK_DAYS, each under a key of its own
C39_DraftHasTheAcceptedDays ==
  DraftForCount
    => /\ Len(ctx.template.days) = last.before.profile.days_count
       /\ \A i \in 1..Len(ctx.template.days) : \A j \in 1..Len(ctx.template.days) :
            ctx.template.days[i].key = ctx.template.days[j].key => i = j


\* how many exercises day k of a bulk replace obtained in its first pass, the
\* one that avoids the ids earlier days took (lines 754-777); d is the day
\* the loop over target days stands at, global_used what it has given out
RECURSIVE FirstPassCount(_,_,_,_,_,_)
FirstPassCount(days, d, k, muscle_targets, c, global_used) ==
  IF d >= k \/ global_used # global_used
  THEN Len(BulkTargetsLoop(muscle_targets, 1, c,
                           [list |-> <<>>, day_used |-> {}, global_used |-> global_used],
                           TRUE).list)
  ELSE FirstPassCount(days, d + 1, k, muscle_targets, c,
                      BulkReplaceDay(days[d], muscle_targets, c, global_used).global_used)

\* day k of the bulk replace fell back to the draw without the global
\* restriction (line 780)
FellBack(k) ==
  FirstPassCount(last.given.days, 1, k,
                 muscle_mapping(InstrOf(last.instr).bulk.target_muscle), cat, {}) < 2

\* days a and b of the returned template hold a common exercise id
ShareAnId(tpl, a, b) ==
  \E i \in 1..Len(tpl.days[a].exercises) : \E j \in 1..Len(tpl.days[b].exercises) :
    tpl.days[a].exercises[i].id = tpl.days[b].exercises[j].id

\* C40: in a bulk replace the same exercise id is assigned to two different
\* target days only if one of the two obtained fewer than two exercises under
\* the global restriction and fell back to the unrestricted draw
C40_BulkRepeatsOnlyAfterFallback ==
  BulkReplaceDone
    => \A a \in 1..Len(last.r.tpl.days) : \A b \in 1..Len(last.r.tpl.days) :
         (a # b /\ ShareAnId(last.r.tpl, a, b)) => (FellBack(a) \/ FellBack(b))

====
